---------------------------- MODULE Spec2Model ----------------------------
(***************************************************************************)
(* A model of the droog-game on-chain program (programs/droog-game/src):   *)
(* the match / stake / grow / delivery records, the token balances the     *)
(* program moves, and one action per instruction handler.  Every handler   *)
(* is a total action: it evaluates the account constraints and the         *)
(* require! checks in the order of the code (its Err operator gives the    *)
(* result), and either commits all of its writes or leaves every record    *)
(* untouched.                                                              *)
(***************************************************************************)
EXTENDS Integers, Sequences, FiniteSets, TLC

(***************************************************************************)
(* Program constants                                                       *)
(***************************************************************************)
STAKE_AMOUNT == 1000000
BURN_PERCENTAGE == 10
CANCEL_TIMEOUT_SECONDS == 300
MATCH_DURATION == 600
INIT_START_SLACK == 60
ENDGAME_LOCK_SECONDS == 60
SLOTS_PER_PLAYER == 6
VARIANT_COUNT == 3
INVENTORY_CAPACITY == 6
DELIVERY_ROTATION_INTERVAL == 60
MAX_DELIVERY_SPOTS == 5
INVALID_INDEX == 255
NUM_CUSTOMERS == 23
REP_MIN == -1000
REP_MAX == 1000
LAYER3_START == 0
LAYER3_END == 2
LAYER2_START == 3
LAYER2_END == 10
LAYER1_START == 11
LAYER1_END == 22

(***************************************************************************)
(* 64-bit unsigned integers, as 8 little-endian bytes (TLC's integers are  *)
(* 32 bits wide; the hashes of the program need all 64).                   *)
(***************************************************************************)
RECURSIVE XorNat(_, _)
XorNat(a, b) ==
    IF a = 0 THEN b
    ELSE IF b = 0 THEN a
    ELSE (((a % 2) + (b % 2)) % 2) + 2 * XorNat(a \div 2, b \div 2)

RECURSIVE Pow2(_)
Pow2(n) == IF n = 0 THEN 1 ELSE 2 * Pow2(n - 1)

U64FromNat(n) ==
    <<n % 256, (n \div 256) % 256, (n \div 65536) % 256,
      (n \div 16777216) % 256, 0, 0, 0, 0>>

U64Byte(x, i) == IF i >= 1 /\ i <= 8 THEN x[i] ELSE 0

U64Xor(x, y) ==
    <<XorNat(x[1], y[1]), XorNat(x[2], y[2]), XorNat(x[3], y[3]),
      XorNat(x[4], y[4]), XorNat(x[5], y[5]), XorNat(x[6], y[6]),
      XorNat(x[7], y[7]), XorNat(x[8], y[8])>>

\* hash >> n
U64ShrByte(x, n, i) ==
    ((U64Byte(x, i + (n \div 8)) \div Pow2(n % 8))
     + (U64Byte(x, i + (n \div 8) + 1) % Pow2(n % 8)) * Pow2(8 - (n % 8))) % 256

U64Shr(x, n) ==
    <<U64ShrByte(x, n, 1), U64ShrByte(x, n, 2), U64ShrByte(x, n, 3),
      U64ShrByte(x, n, 4), U64ShrByte(x, n, 5), U64ShrByte(x, n, 6),
      U64ShrByte(x, n, 7), U64ShrByte(x, n, 8)>>

RECURSIVE U64ColumnSum(_, _, _, _)
U64ColumnSum(x, y, k, i) ==
    IF i > k THEN 0 ELSE x[i] * y[k + 1 - i] + U64ColumnSum(x, y, k, i + 1)

RECURSIVE U64Carry(_, _, _)
\* the carry into byte k of the product
U64Carry(x, y, k) ==
    IF k = 1 THEN 0
    ELSE (U64ColumnSum(x, y, k - 1, 1) + U64Carry(x, y, k - 1)) \div 256

\* u64::wrapping_mul
U64MulByte(x, y, k) == (U64ColumnSum(x, y, k, 1) + U64Carry(x, y, k)) % 256

U64WrappingMul(x, y) ==
    <<U64MulByte(x, y, 1), U64MulByte(x, y, 2), U64MulByte(x, y, 3),
      U64MulByte(x, y, 4), U64MulByte(x, y, 5), U64MulByte(x, y, 6),
      U64MulByte(x, y, 7), U64MulByte(x, y, 8)>>

RECURSIVE U64ModFrom(_, _, _)
U64ModFrom(x, m, i) ==
    IF i > 8 THEN 0 ELSE (U64ModFrom(x, m, i + 1) * 256 + x[i]) % m

\* hash % m, for a small modulus m
U64Mod(x, m) == U64ModFrom(x, m, 1)

U64Zero == <<0, 0, 0, 0, 0, 0, 0, 0>>

\* the value of a u64 below 2^31
U64ToNat(x) == x[1] + 256 * x[2] + 65536 * x[3] + 16777216 * x[4]

\* Byte k (1..16) of the 128-bit product of two u64, and the carry into it
RECURSIVE U64WideColumnSum(_, _, _, _)
U64WideColumnSum(x, y, k, i) ==
    IF i > k THEN 0
    ELSE U64Byte(x, i) * U64Byte(y, k + 1 - i) + U64WideColumnSum(x, y, k, i + 1)

RECURSIVE U64WideCarry(_, _, _)
U64WideCarry(x, y, k) ==
    IF k = 1 THEN 0
    ELSE (U64WideColumnSum(x, y, k - 1, 1) + U64WideCarry(x, y, k - 1)) \div 256

U64WideMulByte(x, y, k) ==
    (U64WideColumnSum(x, y, k, 1) + U64WideCarry(x, y, k)) % 256

\* the product does not fit 64 bits
U64MulOverflows(x, y) == \E k \in 9..16 : U64WideMulByte(x, y, k) # 0

\* The remainder carried into byte i of x / d, for a divisor d below 2^23
RECURSIVE U64DivRem(_, _, _)
U64DivRem(x, d, i) ==
    IF i >= 8 THEN 0 ELSE (U64DivRem(x, d, i + 1) * 256 + x[i + 1]) % d

U64DivByte(x, d, i) == (U64DivRem(x, d, i) * 256 + x[i]) \div d

\* x / d
U64Div(x, d) ==
    <<U64DivByte(x, d, 1), U64DivByte(x, d, 2), U64DivByte(x, d, 3),
      U64DivByte(x, d, 4), U64DivByte(x, d, 5), U64DivByte(x, d, 6),
      U64DivByte(x, d, 7), U64DivByte(x, d, 8)>>

MIX_1 == <<149, 10, 34, 39, 183, 193, 124, 81>>      \* 0x517cc1b727220a95
MIX_2 == <<133, 161, 142, 114, 41, 211, 181, 127>>   \* 0x7fb5d329728ea185


(***************************************************************************)
(* Bounds of the model                                                     *)
(***************************************************************************)
\* the clock reading of the initial state
GENESIS_TS == 1020
\* gameplay stops being offered once a match has this many sales
MaxSales == 1
\* planting stops being offered once a game has this many planted slots
MaxPlants == 1
\* planting stops being offered once a game has this many plants and items
MaxItems == 2

\* The clock readings at which transactions are issued: the growth time of
\* a level 1 plant and the two sides of the cancel timeout of a stake made
\* at GENESIS_TS, which are the two sides of the end of a match started
\* MATCH_DURATION - CANCEL_TIMEOUT_SECONDS before GENESIS_TS.
TimePoints ==
    { GENESIS_TS, GENESIS_TS + 10, GENESIS_TS + CANCEL_TIMEOUT_SECONDS - 1,
      GENESIS_TS + CANCEL_TIMEOUT_SECONDS }

EarlyStart == GENESIS_TS + CANCEL_TIMEOUT_SECONDS - MATCH_DURATION

\* Wallets (public keys, ordered as the keys are) and match id hashes.  A
\* key or a hash p stands for the 32 bytes <<p, 0, ..., 0>>.
Players == {1, 2, 3}
Hashes == {1, 2}

Some(v) == [some |-> TRUE, value |-> v]
None == [some |-> FALSE, value |-> 0]

\* init_match derives the match id from the first 8 bytes of the hash
HashPrefixU64(h) == h

\* The init_match calls that are issued
InitInputs ==
    { [hash |-> 1, match_id |-> Some(12345), start_ts |-> EarlyStart,
       player_a |-> 1, player_b |-> 2],
      [hash |-> 2, match_id |-> None, start_ts |-> EarlyStart,
       player_a |-> 2, player_b |-> 3],
      [hash |-> 1, match_id |-> Some(12345), start_ts |-> EarlyStart,
       player_a |-> 2, player_b |-> 1],
      [hash |-> 2, match_id |-> None, start_ts |-> GENESIS_TS,
       player_a |-> 2, player_b |-> 3],
      [hash |-> 2, match_id |-> None,
       start_ts |-> GENESIS_TS + CANCEL_TIMEOUT_SECONDS + INIT_START_SLACK + 1,
       player_a |-> 2, player_b |-> 3] }

MatchIds == {12345, 2}

(***************************************************************************)
(* State                                                                   *)
(***************************************************************************)
VARIABLES
    now,            \* Clock::get()?.unix_timestamp
    matchState,     \* MatchState accounts, by match id hash
    stakeState,     \* MatchStakeState accounts, by match id hash
    escrow,         \* balance of the escrow token account of each hash
    wallet,         \* balance of each player's token account
    burned,         \* tokens destroyed by the mint
    growState,      \* MatchGrowState accounts, by match id
    deliveryState,  \* MatchDeliveryState accounts, by match id
    cpi,            \* token-program calls made on each escrow
    calc,           \* a function of the program under study: its input and result
    harvests        \* history: the latest harvest of each player and level

vars == <<now, matchState, stakeState, escrow, wallet, burned, growState,
          deliveryState, cpi, calc, harvests>>

accounts == <<matchState, stakeState, escrow, wallet, burned, growState,
              deliveryState, cpi>>

\* what a failed transaction leaves as it was
records == <<accounts, calc, harvests>>

Ok == "Ok"

(***************************************************************************)
(* state/customer_state.rs, state/match_state.rs                           *)
(***************************************************************************)
NoPlayer == 0

CustomerState(layer) ==
    [layer |-> layer, last_served_ts |-> 0, total_serves |-> 0,
     last_served_by |-> NoPlayer]

\* the layer init_match stores in customers[i]
InitialCustomerLayer(i) == IF i < 12 THEN 1 ELSE IF i < 20 THEN 2 ELSE 3

NoMatchState ==
    [exists |-> FALSE, match_id |-> 0, start_ts |-> 0, end_ts |-> 0,
     player_a |-> NoPlayer, player_b |-> NoPlayer,
     customers |-> [i \in 0..(NUM_CUSTOMERS - 1) |-> CustomerState(0)],
     player_a_sales |-> 0, player_b_sales |-> 0,
     player_a_reputation |-> 0, player_b_reputation |-> 0,
     is_finalized |-> FALSE]

(***************************************************************************)
(* state/stake_state.rs                                                    *)
(***************************************************************************)
Pending == "Pending"
Active == "Active"
Finalized == "Finalized"
Cancelled == "Cancelled"
MatchStatus == {Pending, Active, Finalized, Cancelled}

NoStakeState ==
    [exists |-> FALSE, match_id |-> 0, player_a |-> NoPlayer,
     player_b |-> NoPlayer, status |-> Pending, player_a_escrowed |-> 0,
     player_b_escrowed |-> 0, created_at |-> 0]

\* u64::checked_mul: None when the product does not fit 64 bits
CheckedMul(a, b) ==
    IF U64MulOverflows(a, b) THEN None ELSE Some(U64WrappingMul(a, b))

UnwrapOr(opt, default) == IF opt.some THEN opt.value ELSE default

\* u64::checked_div by a small divisor
CheckedDiv(a, b) == IF b = 0 THEN None ELSE Some(U64Div(a, b))

\* A faulty variant of calculate_burn_amount: the percentage is divided
\* before it is multiplied.
CalculateBurnAmountDivFirst(total_escrowed) ==
    U64FromNat(U64ToNat(total_escrowed) * (BURN_PERCENTAGE \div 100))

\* total_escrowed and the result are u64
CalculateBurnAmount(total_escrowed) ==
    UnwrapOr(CheckedDiv(UnwrapOr(CheckedMul(total_escrowed,
                                            U64FromNat(BURN_PERCENTAGE)),
                                 U64Zero),
                        100),
             U64Zero)

CanCancel(stake, current_ts) ==
    /\ stake.status = Pending
    /\ stake.player_b_escrowed = 0
    /\ current_ts >= stake.created_at + CANCEL_TIMEOUT_SECONDS

NoCpi == [burns |-> 0, refunds |-> 0, payouts |-> 0]


(***************************************************************************)
(* state/grow_state.rs                                                     *)
(***************************************************************************)
Empty == [tag |-> "Empty", strain_level |-> 0, planted_at |-> 0]
Growing(strain_level, planted_at) ==
    [tag |-> "Growing", strain_level |-> strain_level, planted_at |-> planted_at]
Ready(strain_level) ==
    [tag |-> "Ready", strain_level |-> strain_level, planted_at |-> 0]

\* GrowSlot::default()
DefaultGrowSlot ==
    [plant_state |-> Empty, strain_level |-> 0, variant_id |-> 0,
     last_harvested_ts |-> 0]

\* Inventory::default()
DefaultInventory == [level1 |-> 0, level2 |-> 0, level3 |-> 0]

SlotIndices == 0..(SLOTS_PER_PLAYER - 1)

NoGrowState ==
    [exists |-> FALSE, match_id_hash |-> 0, player_a |-> NoPlayer,
     player_b |-> NoPlayer,
     player_a_slots |-> [i \in SlotIndices |-> DefaultGrowSlot],
     player_b_slots |-> [i \in SlotIndices |-> DefaultGrowSlot],
     player_a_inventory |-> DefaultInventory,
     player_b_inventory |-> DefaultInventory]

\* A faulty variant of get_growth_time: every level grows like level 1
GetGrowthTimeShort(strain_level) == 10

GetGrowthTime(strain_level) ==
    CASE strain_level = 1 -> 10
      [] strain_level = 2 -> 30
      [] strain_level = 3 -> 60
      [] OTHER -> 0

\* The 32 bytes of a public key, in 8-byte chunks
PubkeyChunks(player) ==
    <<U64FromNat(player), U64FromNat(0), U64FromNat(0), U64FromNat(0)>>

ComputeVariantId(match_id, player, slot_index, slot_number) ==
    LET c  == PubkeyChunks(player)
        h0 == U64FromNat(match_id)
        h1 == U64Xor(U64Xor(U64Xor(U64Xor(h0, c[1]), c[2]), c[3]), c[4])
        h2 == U64Xor(h1, U64FromNat(slot_index))
        h3 == U64Xor(h2, U64FromNat(slot_number))
        h4 == U64WrappingMul(h3, MIX_1)
        h5 == U64Xor(h4, U64Shr(h4, 32))
    IN  U64Mod(h5, VARIANT_COUNT)

\* A faulty variant of get_variant_rep_bonus: no variant earns a bonus
GetVariantRepBonusNone(variant_id) == 0

GetVariantRepBonus(variant_id) ==
    CASE variant_id = 0 -> -1
      [] variant_id = 1 -> 0
      [] variant_id = 2 -> 1
      [] OTHER -> 0

\* Iterator::max_by_key returns the last of several maximal elements
FindVariantForSale(slots, strain_level) ==
    LET matching == { i \in SlotIndices :
                        /\ slots[i].plant_state.tag = "Empty"
                        /\ slots[i].strain_level = strain_level }
    IN  IF matching = {} THEN None
        ELSE LET best == CHOOSE i \in matching :
                            \A j \in matching :
                               \/ slots[j].last_harvested_ts < slots[i].last_harvested_ts
                               \/ /\ slots[j].last_harvested_ts = slots[i].last_harvested_ts
                                  /\ j <= i
             IN  Some(slots[best].variant_id)

\* A faulty variant of can_plant: there is no endgame lock
CanPlantAlways(current_ts, end_ts) == TRUE

\* A faulty variant of can_plant: the lock begins a second late
CanPlantLate(current_ts, end_ts) == current_ts <= end_ts - ENDGAME_LOCK_SECONDS

CanPlant(current_ts, end_ts) == current_ts < end_ts - ENDGAME_LOCK_SECONDS

\* A faulty variant of is_slot_available: a slot with a plant counts as free
IsSlotAvailableAny(slot) == TRUE

IsSlotAvailable(slot) == slot.plant_state.tag = "Empty"

WillBeReadyInTime(current_ts, end_ts, strain_level) ==
    current_ts + GetGrowthTime(strain_level) <= end_ts

\* A faulty variant of advance_if_ready: the growth time is not awaited
AdvanceIfReadyAtOnce(slot, current_ts) ==
    IF slot.plant_state.tag = "Growing"
    THEN [slot EXCEPT !.plant_state = Ready(slot.plant_state.strain_level)]
    ELSE slot

\* GrowSlot::advance_if_ready
AdvanceIfReady(slot, current_ts) ==
    IF /\ slot.plant_state.tag = "Growing"
       /\ current_ts - slot.plant_state.planted_at
             >= GetGrowthTime(slot.plant_state.strain_level)
    THEN [slot EXCEPT !.plant_state = Ready(slot.plant_state.strain_level)]
    ELSE slot

InventoryHas(inv, strain_level) ==
    CASE strain_level = 1 -> inv.level1 > 0
      [] strain_level = 2 -> inv.level2 > 0
      [] strain_level = 3 -> inv.level3 > 0
      [] OTHER -> FALSE

InventoryGet(inv, strain_level) ==
    CASE strain_level = 1 -> inv.level1
      [] strain_level = 2 -> inv.level2
      [] strain_level = 3 -> inv.level3
      [] OTHER -> 0

\* u8::saturating_add
SaturatingAddU8(a, b) == IF a + b > 255 THEN 255 ELSE a + b

InventoryTotal(inv) ==
    SaturatingAddU8(SaturatingAddU8(inv.level1, inv.level2), inv.level3)

\* A faulty variant of Inventory::has_space: there is always room
InventoryHasSpaceAlways(inv) == TRUE

InventoryHasSpace(inv) == InventoryTotal(inv) < INVENTORY_CAPACITY

\* A faulty variant of Inventory::increment: the harvested item is lost
InventoryIncrementLost(inv, strain_level) == inv

\* A faulty variant of Inventory::increment: every item counts as level 1
InventoryIncrementLevel1(inv, strain_level) ==
    [inv EXCEPT !.level1 = SaturatingAddU8(@, 1)]

InventoryIncrement(inv, strain_level) ==
    CASE strain_level = 1 -> [inv EXCEPT !.level1 = SaturatingAddU8(@, 1)]
      [] strain_level = 2 -> [inv EXCEPT !.level2 = SaturatingAddU8(@, 1)]
      [] strain_level = 3 -> [inv EXCEPT !.level3 = SaturatingAddU8(@, 1)]
      [] OTHER -> inv

\* A faulty variant of Inventory::decrement: the item stays in the inventory
InventoryDecrementKeeps(inv, strain_level) ==
    [inv |-> inv, ok |-> InventoryHas(inv, strain_level)]

\* Inventory::decrement: (the inventory afterwards, whether it was decremented)
InventoryDecrement(inv, strain_level) ==
    CASE strain_level = 1 /\ inv.level1 > 0 ->
            [inv |-> [inv EXCEPT !.level1 = @ - 1], ok |-> TRUE]
      [] strain_level = 2 /\ inv.level2 > 0 ->
            [inv |-> [inv EXCEPT !.level2 = @ - 1], ok |-> TRUE]
      [] strain_level = 3 /\ inv.level3 > 0 ->
            [inv |-> [inv EXCEPT !.level3 = @ - 1], ok |-> TRUE]
      [] OTHER -> [inv |-> inv, ok |-> FALSE]

(***************************************************************************)
(* state/match_state.rs                                                    *)
(***************************************************************************)
\* A faulty variant of MatchState::layer_from_index: index 3 counts as
\* layer 3
LayerFromIndexOff(customer_index) ==
    IF customer_index <= 3 THEN 3
    ELSE IF customer_index < 11 THEN 2
    ELSE 1

LayerFromIndex(customer_index) ==
    IF customer_index < 3 THEN 3
    ELSE IF customer_index < 11 THEN 2
    ELSE 1

GetCustomerCooldown(layer) ==
    CASE layer = 1 -> 30
      [] layer = 2 -> 45
      [] layer = 3 -> 75
      [] OTHER -> 0

\* A faulty variant of is_customer_available: the cooldown ends a second
\* early
IsCustomerAvailableEarly(match_state, customer_index, current_ts) ==
    IF customer_index >= NUM_CUSTOMERS THEN FALSE
    ELSE IF match_state.customers[customer_index].last_served_ts = 0 THEN TRUE
    ELSE current_ts + 1 >= match_state.customers[customer_index].last_served_ts
                         + GetCustomerCooldown(LayerFromIndex(customer_index))

IsCustomerAvailable(match_state, customer_index, current_ts) ==
    IF customer_index >= NUM_CUSTOMERS THEN FALSE
    ELSE IF match_state.customers[customer_index].last_served_ts = 0 THEN TRUE
    ELSE current_ts >= match_state.customers[customer_index].last_served_ts
                         + GetCustomerCooldown(LayerFromIndex(customer_index))

\* A faulty variant of validate_strain_for_customer: every level is accepted
ValidateStrainForCustomerAny(customer_index, strain_level) ==
    customer_index < NUM_CUSTOMERS

ValidateStrainForCustomer(customer_index, strain_level) ==
    IF customer_index >= NUM_CUSTOMERS THEN FALSE
    ELSE LET layer == LayerFromIndex(customer_index) IN
         CASE layer = 1 -> strain_level = 1
           [] layer = 2 -> strain_level = 1 \/ strain_level = 2
           [] layer = 3 -> strain_level = 2 \/ strain_level = 3
           [] OTHER -> FALSE

\* A faulty variant of get_reputation_change: a layer 2 customer is pleased
\* by level 2 only
GetReputationChangeStrict(customer_layer, strain_level) ==
    CASE customer_layer = 1 -> IF strain_level = 1 THEN 1 ELSE -2
      [] customer_layer = 2 -> IF strain_level = 2 THEN 2 ELSE -2
      [] customer_layer = 3 ->
            IF strain_level = 3 THEN 3 ELSE IF strain_level = 2 THEN 1 ELSE -3
      [] OTHER -> 0

GetReputationChange(customer_layer, strain_level) ==
    CASE customer_layer = 1 -> IF strain_level = 1 THEN 1 ELSE -2
      [] customer_layer = 2 ->
            IF strain_level = 2 THEN 2 ELSE IF strain_level = 1 THEN 1 ELSE -2
      [] customer_layer = 3 ->
            IF strain_level = 3 THEN 3 ELSE IF strain_level = 2 THEN 1 ELSE -3
      [] OTHER -> 0

\* i32::saturating_add
SaturatingAddI32(a, b) ==
    IF a + b > 2147483647 THEN 2147483647
    ELSE IF a + b < -2147483647 - 1 THEN -2147483647 - 1
    ELSE a + b

\* A faulty variant of clamp_reputation: only the lower end is enforced
ClampReputationBelow(rep) == IF rep > REP_MIN THEN rep ELSE REP_MIN

ClampReputation(rep) ==
    LET lo == IF rep > REP_MIN THEN rep ELSE REP_MIN
    IN  IF lo < REP_MAX THEN lo ELSE REP_MAX

(***************************************************************************)
(* state/delivery_state.rs                                                 *)
(***************************************************************************)
NoSpots == [i \in 1..MAX_DELIVERY_SPOTS |-> INVALID_INDEX]

NoDeliveryState ==
    [exists |-> FALSE, last_update_ts |-> 0, available_customers |-> NoSpots,
     active_count |-> 0]

\* A faulty variant of MatchDeliveryState::is_customer_available: the stored
\* set is not looked at
DeliveryIsCustomerAvailableAny(delivery_state, customer_index) ==
    customer_index < NUM_CUSTOMERS

\* MatchDeliveryState::is_customer_available; entry i of the array is
\* available_customers[i + 1]
DeliveryIsCustomerAvailable(delivery_state, customer_index) ==
    \E i \in 0..(delivery_state.active_count - 1) :
        /\ i < MAX_DELIVERY_SPOTS
        /\ delivery_state.available_customers[i + 1] = customer_index

\* MatchDeliveryState::layer_from_index
DeliveryLayerFromIndex(customer_index) ==
    IF customer_index <= LAYER3_END THEN 3
    ELSE IF customer_index <= LAYER2_END THEN 2
    ELSE 1

GetRotationBucket(current_ts) == current_ts \div DELIVERY_ROTATION_INTERVAL

\* A faulty variant of compute_delivery_seed: the timestamp is not bucketed
ComputeDeliverySeedRaw(match_id, current_ts) ==
    LET h0 == U64Xor(U64FromNat(match_id), U64FromNat(current_ts))
        h1 == U64WrappingMul(h0, MIX_1)
        h2 == U64Xor(h1, U64Shr(h1, 32))
        h3 == U64WrappingMul(h2, MIX_2)
    IN  U64Xor(h3, U64Shr(h3, 27))

ComputeDeliverySeed(match_id, current_ts) ==
    LET timestamp_bucket == current_ts \div DELIVERY_ROTATION_INTERVAL
        h0 == U64Xor(U64FromNat(match_id), U64FromNat(timestamp_bucket))
        h1 == U64WrappingMul(h0, MIX_1)
        h2 == U64Xor(h1, U64Shr(h1, 32))
        h3 == U64WrappingMul(h2, MIX_2)
    IN  U64Xor(h3, U64Shr(h3, 27))

\* A faulty variant of contains_spot: every index counts as taken
ContainsSpotAlways(spots, count, value) == TRUE

\* A faulty variant of contains_spot: no entry is ever found
ContainsSpotNever(spots, count, value) == FALSE

ContainsSpot(spots, count, value) == \E i \in 1..count : spots[i] = value

\* A faulty variant of the push: the entry before the free one is written
PushSpotOver(sel, value) ==
    [spots |-> [sel.spots EXCEPT ![IF sel.count = 0 THEN 1 ELSE sel.count] = value],
     count |-> sel.count + 1]

\* spots[count] = value; count += 1
PushSpot(sel, value) ==
    [spots |-> [sel.spots EXCEPT ![sel.count + 1] = value],
     count |-> sel.count + 1]

SelectDeliverySpots(seed) ==
    LET layer3_count == LAYER3_END - LAYER3_START + 1
        layer2_count == LAYER2_END - LAYER2_START + 1
        layer1_count == LAYER1_END - LAYER1_START + 1
        sel0 == [spots |-> NoSpots, count |-> 0]
        sel1 == PushSpot(sel0, LAYER3_START + U64Mod(seed, layer3_count))
        sel2 == PushSpot(sel1, LAYER2_START + U64Mod(U64Shr(seed, 8), layer2_count))
        sel3 == PushSpot(sel2, LAYER1_START + U64Mod(U64Shr(seed, 16), layer1_count))
        additional1_seed == U64Shr(seed, 24)
        a1_l2_offset == U64Mod(U64Shr(additional1_seed, 4), layer2_count)
        a1_l1_offset == U64Mod(U64Shr(additional1_seed, 4), layer1_count)
        sel4 ==
            IF U64Mod(additional1_seed, 3) = 0
            THEN IF ~ContainsSpot(sel3.spots, sel3.count, LAYER2_START + a1_l2_offset)
                 THEN PushSpot(sel3, LAYER2_START + a1_l2_offset)
                 ELSE PushSpot(sel3, LAYER2_START + ((a1_l2_offset + 1) % layer2_count))
            ELSE IF ~ContainsSpot(sel3.spots, sel3.count, LAYER1_START + a1_l1_offset)
                 THEN PushSpot(sel3, LAYER1_START + a1_l1_offset)
                 ELSE PushSpot(sel3, LAYER1_START + ((a1_l1_offset + 1) % layer1_count))
        additional2_seed == U64Shr(seed, 40)
        layer_choice == U64Mod(additional2_seed, 6)
        a2_l3_offset == U64Mod(U64Shr(additional2_seed, 4), layer3_count)
        a2_l2_offset == U64Mod(U64Shr(additional2_seed, 4), layer2_count)
        a2_l1_offset == U64Mod(U64Shr(additional2_seed, 4), layer1_count)
        l2_fallback == LAYER2_START + ((a2_l2_offset + 2) % layer2_count)
        l1_fallback == LAYER1_START + ((a2_l1_offset + 2) % layer1_count)
    IN  IF layer_choice < 2
        THEN IF ~ContainsSpot(sel4.spots, sel4.count, LAYER3_START + a2_l3_offset)
             THEN PushSpot(sel4, LAYER3_START + a2_l3_offset)
             ELSE sel4
        ELSE IF layer_choice < 4
        THEN IF ~ContainsSpot(sel4.spots, sel4.count, LAYER2_START + a2_l2_offset)
             THEN PushSpot(sel4, LAYER2_START + a2_l2_offset)
             ELSE IF ~ContainsSpot(sel4.spots, sel4.count, l2_fallback)
                  THEN PushSpot(sel4, l2_fallback)
                  ELSE sel4
        ELSE IF ~ContainsSpot(sel4.spots, sel4.count, LAYER1_START + a2_l1_offset)
             THEN PushSpot(sel4, LAYER1_START + a2_l1_offset)
             ELSE IF ~ContainsSpot(sel4.spots, sel4.count, l1_fallback)
                  THEN PushSpot(sel4, l1_fallback)
                  ELSE sel4

\* A faulty variant of needs_refresh: a second less than the interval is
\* enough
NeedsRefreshEarly(delivery_state, current_ts) ==
    current_ts >= delivery_state.last_update_ts + DELIVERY_ROTATION_INTERVAL - 1

NeedsRefresh(delivery_state, current_ts) ==
    current_ts >= delivery_state.last_update_ts + DELIVERY_ROTATION_INTERVAL

(***************************************************************************)
(* The initial state: no account of the program exists; every wallet holds *)
(* the stakes its owner is going to commit.                                *)
(***************************************************************************)
\* Nothing harvested yet: for each side ("a", "b") and level, the time of
\* the latest harvest and the variants harvested at that time.
NoHarvests ==
    [side \in {"a", "b"} |-> [l \in 1..3 |-> [ts |-> 0, variants |-> {}]]]

\* the history after a harvest of a plant of this level and variant
RecordHarvest(h, side, strain_level, variant_id, current_ts) ==
    [h EXCEPT ![side][strain_level] =
        IF current_ts > @.ts
        THEN [ts |-> current_ts, variants |-> {variant_id}]
        ELSE [@ EXCEPT !.variants = @ \cup {variant_id}]]

\* no function is under study
NoCalc == [fn |-> "none"]

Genesis ==
    /\ now = GENESIS_TS
    /\ matchState = [h \in Hashes |-> NoMatchState]
    /\ stakeState = [h \in Hashes |-> NoStakeState]
    /\ escrow = [h \in Hashes |-> 0]
    /\ wallet = [p \in Players |-> IF p = 2 THEN 2 * STAKE_AMOUNT ELSE STAKE_AMOUNT]
    /\ burned = 0
    /\ growState = [id \in MatchIds |-> NoGrowState]
    /\ deliveryState = [id \in MatchIds |-> NoDeliveryState]
    /\ cpi = [h \in Hashes |-> NoCpi]
    /\ harvests = [id \in MatchIds |-> NoHarvests]

Init == Genesis /\ calc = NoCalc

\* The clock moves to the next reading
Tick ==
    /\ \E t \in TimePoints :
          /\ t > now
          /\ \A u \in TimePoints : u > now => t <= u
          /\ now' = t
    /\ UNCHANGED records

(***************************************************************************)
(* instructions/init_match.rs                                              *)
(***************************************************************************)
InitMatchErr(in) ==
    IF matchState[in.hash].exists \/ stakeState[in.hash].exists
        THEN "AccountAlreadyInUse"
    ELSE IF ~(in.player_a < in.player_b) THEN "InvalidPlayerOrder"
    ELSE IF ~(in.start_ts <= now + INIT_START_SLACK) THEN "MatchNotStarted"
    ELSE IF ~(wallet[in.player_a] >= STAKE_AMOUNT) THEN "InsufficientStakeBalance"
    ELSE Ok

InitMatch(in) ==
    LET derived_match_id ==
            IF in.match_id.some THEN in.match_id.value ELSE HashPrefixU64(in.hash)
        err == InitMatchErr(in)
    IN  /\ IF err = Ok
           THEN /\ matchState' = [matchState EXCEPT ![in.hash] =
                      [exists |-> TRUE,
                       match_id |-> derived_match_id,
                       start_ts |-> in.start_ts,
                       end_ts |-> in.start_ts + MATCH_DURATION,
                       player_a |-> in.player_a,
                       player_b |-> in.player_b,
                       customers |-> [i \in 0..(NUM_CUSTOMERS - 1) |->
                                        CustomerState(InitialCustomerLayer(i))],
                       player_a_sales |-> 0, player_b_sales |-> 0,
                       player_a_reputation |-> 0, player_b_reputation |-> 0,
                       is_finalized |-> FALSE]]
                /\ stakeState' = [stakeState EXCEPT ![in.hash] =
                      [exists |-> TRUE,
                       match_id |-> derived_match_id,
                       player_a |-> in.player_a,
                       player_b |-> in.player_b,
                       status |-> Pending,
                       player_a_escrowed |-> STAKE_AMOUNT,
                       player_b_escrowed |-> 0,
                       created_at |-> now]]
                /\ wallet' = [wallet EXCEPT ![in.player_a] = @ - STAKE_AMOUNT]
                /\ escrow' = [escrow EXCEPT ![in.hash] = @ + STAKE_AMOUNT]
                /\ UNCHANGED <<calc, harvests, now, burned, growState,
                               deliveryState, cpi>>
           ELSE UNCHANGED <<now, records>>

(***************************************************************************)
(* instructions/join_match_stake.rs                                        *)
(***************************************************************************)
\* A faulty variant of join_match_with_stake's checks: the status of the
\* stake is not looked at.
JoinMatchWithStakeErrAnyStatus(h, player_b) ==
    LET stake == stakeState[h] IN
    IF ~stake.exists THEN "AccountNotInitialized"
    ELSE IF stake.player_b # player_b THEN "InvalidPlayer"
    ELSE IF ~(wallet[player_b] >= STAKE_AMOUNT) THEN "InsufficientStakeBalance"
    ELSE Ok

JoinMatchWithStakeErr(h, player_b) ==
    LET stake == stakeState[h] IN
    IF ~stake.exists THEN "AccountNotInitialized"
    ELSE IF stake.player_b # player_b THEN "InvalidPlayer"
    ELSE IF stake.status # Pending THEN "MatchNotPending"
    ELSE IF stake.player_b_escrowed # 0 THEN "AlreadyStaked"
    ELSE IF ~(wallet[player_b] >= STAKE_AMOUNT) THEN "InsufficientStakeBalance"
    ELSE Ok

JoinMatchWithStake(h, player_b) ==
    LET stake == stakeState[h]
        err == JoinMatchWithStakeErr(h, player_b)
        b_escrowed == STAKE_AMOUNT
        total_escrowed == stake.player_a_escrowed + b_escrowed
        burn_amount == U64ToNat(CalculateBurnAmount(U64FromNat(total_escrowed)))
    IN  /\ IF err = Ok
           THEN /\ wallet' = [wallet EXCEPT ![player_b] = @ - STAKE_AMOUNT]
                /\ escrow' = [escrow EXCEPT ![h] = @ + STAKE_AMOUNT - burn_amount]
                /\ burned' = burned + burn_amount
                /\ cpi' = [cpi EXCEPT ![h].burns =
                              IF burn_amount > 0 THEN @ + 1 ELSE @]
                /\ stakeState' = [stakeState EXCEPT
                                    ![h].player_b_escrowed = b_escrowed,
                                    ![h].status = Active]
                /\ UNCHANGED <<calc, harvests, now, matchState, growState,
                               deliveryState>>
           ELSE UNCHANGED <<now, records>>

(***************************************************************************)
(* instructions/cancel_match.rs                                            *)
(***************************************************************************)
\* Faulty variants of cancel_match's checks: the timeout has to be exceeded,
\* not reached; and neither the status nor player B's stake is looked at.
CancelMatchErrLateBoundary(h, player_a) ==
    LET stake == stakeState[h] IN
    IF ~stake.exists THEN "AccountNotInitialized"
    ELSE IF stake.player_a # player_a THEN "InvalidPlayer"
    ELSE IF stake.status # Pending THEN "MatchNotPending"
    ELSE IF stake.player_b_escrowed # 0 THEN "PlayerBAlreadyJoined"
    ELSE IF ~(now > stake.created_at + CANCEL_TIMEOUT_SECONDS) THEN "CancelTooEarly"
    ELSE IF escrow[h] < stake.player_a_escrowed THEN "InsufficientFunds"
    ELSE Ok

CancelMatchErrNoRevalidation(h, player_a) ==
    LET stake == stakeState[h] IN
    IF ~stake.exists THEN "AccountNotInitialized"
    ELSE IF stake.player_a # player_a THEN "InvalidPlayer"
    ELSE IF ~(now >= stake.created_at + CANCEL_TIMEOUT_SECONDS) THEN "CancelTooEarly"
    ELSE IF escrow[h] < stake.player_a_escrowed THEN "InsufficientFunds"
    ELSE Ok

CancelMatchErr(h, player_a) ==
    LET stake == stakeState[h] IN
    IF ~stake.exists THEN "AccountNotInitialized"
    ELSE IF stake.player_a # player_a THEN "InvalidPlayer"
    ELSE IF stake.status # Pending THEN "MatchNotPending"
    ELSE IF stake.player_b_escrowed # 0 THEN "PlayerBAlreadyJoined"
    ELSE IF ~(now >= stake.created_at + CANCEL_TIMEOUT_SECONDS) THEN "CancelTooEarly"
    ELSE IF escrow[h] < stake.player_a_escrowed THEN "InsufficientFunds"
    ELSE Ok

\* A faulty variant of cancel_match: the refund is made and the status is
\* left as it was.
CancelMatchKeepsStatus(h, player_a) ==
    LET stake == stakeState[h]
        err == CancelMatchErr(h, player_a)
        refund_amount == stake.player_a_escrowed
    IN  /\ IF err = Ok
           THEN /\ escrow' = [escrow EXCEPT ![h] = @ - refund_amount]
                /\ wallet' = [wallet EXCEPT ![player_a] = @ + refund_amount]
                /\ cpi' = [cpi EXCEPT ![h].refunds = @ + 1]
                /\ stakeState' = [stakeState EXCEPT ![h].player_a_escrowed = 0]
                /\ UNCHANGED <<calc, harvests, now, matchState, burned,
                               growState, deliveryState>>
           ELSE UNCHANGED <<now, records>>

CancelMatch(h, player_a) ==
    LET stake == stakeState[h]
        err == CancelMatchErr(h, player_a)
        refund_amount == stake.player_a_escrowed
    IN  /\ IF err = Ok
           THEN /\ escrow' = [escrow EXCEPT ![h] = @ - refund_amount]
                /\ wallet' = [wallet EXCEPT ![player_a] = @ + refund_amount]
                /\ cpi' = [cpi EXCEPT ![h].refunds = @ + 1]
                /\ stakeState' = [stakeState EXCEPT
                                    ![h].status = Cancelled,
                                    ![h].player_a_escrowed = 0]
                /\ UNCHANGED <<calc, harvests, now, matchState, burned,
                               growState, deliveryState>>
           ELSE UNCHANGED <<now, records>>

(***************************************************************************)
(* instructions/finalize_match.rs                                          *)
(***************************************************************************)
\* Faulty variants of finalize_match's checks: is_finalized is not looked
\* at; and the end of the match is not waited for.
FinalizeMatchErrNoFinalizedCheck(m, s, player, dest) ==
    LET match_state == matchState[m]
        stake_state == stakeState[s]
    IN
    IF ~match_state.exists \/ ~stake_state.exists THEN "AccountNotInitialized"
    ELSE IF stake_state.status # Active THEN "MatchNotActive"
    ELSE IF ~(dest = match_state.player_a \/ dest = match_state.player_b)
        THEN "InvalidPlayer"
    ELSE IF ~(now >= match_state.end_ts) THEN "MatchFinalizationTooEarly"
    ELSE IF ~(player = match_state.player_a \/ player = match_state.player_b)
        THEN "UnauthorizedFinalization"
    ELSE Ok

FinalizeMatchErrNoEndCheck(m, s, player, dest) ==
    LET match_state == matchState[m]
        stake_state == stakeState[s]
    IN
    IF ~match_state.exists \/ ~stake_state.exists THEN "AccountNotInitialized"
    ELSE IF stake_state.status # Active THEN "MatchNotActive"
    ELSE IF ~(dest = match_state.player_a \/ dest = match_state.player_b)
        THEN "InvalidPlayer"
    ELSE IF match_state.is_finalized THEN "MatchAlreadyFinalized"
    ELSE IF ~(player = match_state.player_a \/ player = match_state.player_b)
        THEN "UnauthorizedFinalization"
    ELSE Ok

\* The accounts of FinalizeMatch: match_state m and stake_state s are each
\* checked against the seeds of their own fields, the escrow is the one of
\* s, and winner_token_account is the token account of wallet dest.
FinalizeMatchErr(m, s, player, dest) ==
    LET match_state == matchState[m]
        stake_state == stakeState[s]
    IN
    IF ~match_state.exists \/ ~stake_state.exists THEN "AccountNotInitialized"
    ELSE IF stake_state.status # Active THEN "MatchNotActive"
    ELSE IF ~(dest = match_state.player_a \/ dest = match_state.player_b)
        THEN "InvalidPlayer"
    ELSE IF match_state.is_finalized THEN "MatchAlreadyFinalized"
    ELSE IF ~(now >= match_state.end_ts) THEN "MatchFinalizationTooEarly"
    ELSE IF ~(player = match_state.player_a \/ player = match_state.player_b)
        THEN "UnauthorizedFinalization"
    ELSE IF stake_state.status # Active THEN "MatchNotActive"
    ELSE Ok

\* (winner, loser) as finalize_match determines them for its payout event
Winner(match_state) ==
    IF match_state.player_a_sales >= match_state.player_b_sales
    THEN match_state.player_a
    ELSE match_state.player_b

FinalizeMatch(m, s, player, dest) ==
    LET err == FinalizeMatchErr(m, s, player, dest)
        payout_amount == escrow[s]
    IN  /\ IF err = Ok
           THEN /\ escrow' = [escrow EXCEPT ![s] = @ - payout_amount]
                /\ wallet' = [wallet EXCEPT ![dest] = @ + payout_amount]
                /\ cpi' = [cpi EXCEPT ![s].payouts =
                              IF payout_amount > 0 THEN @ + 1 ELSE @]
                /\ matchState' = [matchState EXCEPT ![m].is_finalized = TRUE]
                /\ stakeState' = [stakeState EXCEPT ![s].status = Finalized]
                /\ UNCHANGED <<calc, harvests, now, burned, growState,
                               deliveryState>>
           ELSE UNCHANGED <<now, records>>

(***************************************************************************)
(* instructions/init_grow_state.rs, instructions/init_delivery_state.rs    *)
(***************************************************************************)
\* The grow state account is addressed by match_id; match_state is the
\* account addressed by match_id_hash.
InitGrowStateErr(match_id_hash, match_id) ==
    IF growState[match_id].exists THEN "AccountAlreadyInUse"
    ELSE IF ~matchState[match_id_hash].exists THEN "AccountNotInitialized"
    ELSE IF matchState[match_id_hash].match_id # match_id THEN "MatchIdMismatch"
    ELSE Ok

InitGrowState(match_id_hash, match_id) ==
    LET err == InitGrowStateErr(match_id_hash, match_id) IN
    /\ IF err = Ok
       THEN /\ growState' = [growState EXCEPT ![match_id] =
                  [exists |-> TRUE,
                   match_id_hash |-> match_id_hash,
                   player_a |-> matchState[match_id_hash].player_a,
                   player_b |-> matchState[match_id_hash].player_b,
                   player_a_slots |-> [i \in SlotIndices |-> DefaultGrowSlot],
                   player_b_slots |-> [i \in SlotIndices |-> DefaultGrowSlot],
                   player_a_inventory |-> DefaultInventory,
                   player_b_inventory |-> DefaultInventory]]
            /\ UNCHANGED <<calc, harvests, now, matchState, stakeState,
                           escrow, wallet, burned, deliveryState, cpi>>
       ELSE UNCHANGED <<now, records>>

InitDeliveryStateErr(match_id_hash, match_id) ==
    IF deliveryState[match_id].exists THEN "AccountAlreadyInUse"
    ELSE IF ~matchState[match_id_hash].exists THEN "AccountNotInitialized"
    ELSE IF matchState[match_id_hash].match_id # match_id THEN "MatchIdMismatch"
    ELSE Ok

InitDeliveryState(match_id_hash, match_id) ==
    LET err == InitDeliveryStateErr(match_id_hash, match_id)
        sel == SelectDeliverySpots(ComputeDeliverySeed(match_id, now))
    IN
    /\ IF err = Ok
       THEN /\ deliveryState' = [deliveryState EXCEPT ![match_id] =
                  [exists |-> TRUE,
                   last_update_ts |-> now,
                   available_customers |-> sel.spots,
                   active_count |-> sel.count]]
            /\ UNCHANGED <<calc, harvests, now, matchState, stakeState,
                           escrow, wallet, burned, growState, cpi>>
       ELSE UNCHANGED <<now, records>>

(***************************************************************************)
(* instructions/plant_strain.rs                                            *)
(***************************************************************************)
\* match_state is the account the seeds of grow_state (hash and players)
\* address.
PlantStrainErr(match_id, player, slot_index, strain_level) ==
    LET grow_state == growState[match_id]
        match_state == matchState[grow_state.match_id_hash]
        is_player_a == player = grow_state.player_a
        is_player_b == player = grow_state.player_b
        slots == IF is_player_a THEN grow_state.player_a_slots
                 ELSE grow_state.player_b_slots
    IN
    IF ~grow_state.exists THEN "AccountNotInitialized"
    ELSE IF match_state.is_finalized THEN "MatchAlreadyFinalized"
    ELSE IF ~(now >= match_state.start_ts) THEN "MatchNotStarted"
    ELSE IF ~(now < match_state.end_ts) THEN "MatchEnded"
    ELSE IF ~CanPlant(now, match_state.end_ts) THEN "EndgamePlantingLocked"
    ELSE IF ~(strain_level >= 1 /\ strain_level <= 3) THEN "InvalidStrainLevel"
    ELSE IF ~(slot_index < SLOTS_PER_PLAYER) THEN "InvalidSlotIndex"
    ELSE IF ~WillBeReadyInTime(now, match_state.end_ts, strain_level)
        THEN "PlantWontBeReady"
    ELSE IF ~(is_player_a \/ is_player_b) THEN "InvalidPlayer"
    ELSE IF ~IsSlotAvailable(slots[slot_index]) THEN "SlotOccupied"
    ELSE Ok

PlantStrain(match_id, player, slot_index, strain_level) ==
    LET err == PlantStrainErr(match_id, player, slot_index, strain_level)
        grow_state == growState[match_id]
        variant_id == ComputeVariantId(match_id, player, slot_index, now)
        planted(slot) == [slot EXCEPT
                            !.plant_state = Growing(strain_level, now),
                            !.strain_level = strain_level,
                            !.variant_id = variant_id]
    IN
    /\ IF err = Ok
       THEN /\ growState' =
                  IF player = grow_state.player_a
                  THEN [growState EXCEPT ![match_id].player_a_slots[slot_index] =
                            planted(@)]
                  ELSE [growState EXCEPT ![match_id].player_b_slots[slot_index] =
                            planted(@)]
            /\ UNCHANGED <<calc, harvests, now, matchState, stakeState,
                           escrow, wallet, burned, deliveryState, cpi>>
       ELSE UNCHANGED <<now, records>>

(***************************************************************************)
(* instructions/harvest_strain.rs                                          *)
(***************************************************************************)
\* A faulty variant of harvest_strain's checks: is_finalized is not looked at
HarvestStrainErrNoFinalizedCheck(match_id, player, slot_index) ==
    LET grow_state == growState[match_id]
        match_state == matchState[grow_state.match_id_hash]
        is_player_a == player = grow_state.player_a
        is_player_b == player = grow_state.player_b
        slot == AdvanceIfReady(IF is_player_a
                               THEN grow_state.player_a_slots[slot_index]
                               ELSE grow_state.player_b_slots[slot_index], now)
        inventory == IF is_player_a THEN grow_state.player_a_inventory
                     ELSE grow_state.player_b_inventory
    IN
    IF ~grow_state.exists THEN "AccountNotInitialized"
    ELSE IF ~(now >= match_state.start_ts) THEN "MatchNotStarted"
    ELSE IF ~(now < match_state.end_ts) THEN "MatchEnded"
    ELSE IF ~(slot_index < SLOTS_PER_PLAYER) THEN "InvalidSlotIndex"
    ELSE IF ~(is_player_a \/ is_player_b) THEN "InvalidPlayer"
    ELSE IF slot.plant_state.tag = "Empty" THEN "SlotEmpty"
    ELSE IF slot.plant_state.tag = "Growing" THEN "GrowthTimeNotElapsed"
    ELSE IF ~InventoryHasSpace(inventory) THEN "InventoryFull"
    ELSE Ok

HarvestStrainErr(match_id, player, slot_index) ==
    LET grow_state == growState[match_id]
        match_state == matchState[grow_state.match_id_hash]
        is_player_a == player = grow_state.player_a
        is_player_b == player = grow_state.player_b
        slot == AdvanceIfReady(IF is_player_a
                               THEN grow_state.player_a_slots[slot_index]
                               ELSE grow_state.player_b_slots[slot_index], now)
        inventory == IF is_player_a THEN grow_state.player_a_inventory
                     ELSE grow_state.player_b_inventory
    IN
    IF ~grow_state.exists THEN "AccountNotInitialized"
    ELSE IF match_state.is_finalized THEN "MatchAlreadyFinalized"
    ELSE IF ~(now >= match_state.start_ts) THEN "MatchNotStarted"
    ELSE IF ~(now < match_state.end_ts) THEN "MatchEnded"
    ELSE IF ~(slot_index < SLOTS_PER_PLAYER) THEN "InvalidSlotIndex"
    ELSE IF ~(is_player_a \/ is_player_b) THEN "InvalidPlayer"
    ELSE IF slot.plant_state.tag = "Empty" THEN "SlotEmpty"
    ELSE IF slot.plant_state.tag = "Growing" THEN "GrowthTimeNotElapsed"
    ELSE IF ~InventoryHasSpace(inventory) THEN "InventoryFull"
    ELSE Ok

HarvestStrain(match_id, player, slot_index) ==
    LET err == HarvestStrainErr(match_id, player, slot_index)
        grow_state == growState[match_id]
        harvested(slot) ==
            [AdvanceIfReady(slot, now) EXCEPT
                !.plant_state = Empty, !.last_harvested_ts = now]
        level(slot) == AdvanceIfReady(slot, now).plant_state.strain_level
    IN
    /\ IF err = Ok
       THEN /\ growState' =
                  IF player = grow_state.player_a
                  THEN [growState EXCEPT
                          ![match_id].player_a_inventory =
                              InventoryIncrement(@,
                                  level(grow_state.player_a_slots[slot_index])),
                          ![match_id].player_a_slots[slot_index] = harvested(@)]
                  ELSE [growState EXCEPT
                          ![match_id].player_b_inventory =
                              InventoryIncrement(@,
                                  level(grow_state.player_b_slots[slot_index])),
                          ![match_id].player_b_slots[slot_index] = harvested(@)]
            /\ harvests' =
                  IF player = grow_state.player_a
                  THEN [harvests EXCEPT ![match_id] =
                          RecordHarvest(@, "a",
                              level(grow_state.player_a_slots[slot_index]),
                              grow_state.player_a_slots[slot_index].variant_id,
                              now)]
                  ELSE [harvests EXCEPT ![match_id] =
                          RecordHarvest(@, "b",
                              level(grow_state.player_b_slots[slot_index]),
                              grow_state.player_b_slots[slot_index].variant_id,
                              now)]
            /\ UNCHANGED <<calc, now, matchState, stakeState, escrow, wallet,
                           burned, deliveryState, cpi>>
       ELSE UNCHANGED <<now, records>>

(***************************************************************************)
(* instructions/sell_to_customer.rs                                        *)
(***************************************************************************)
\* A faulty variant of sell_to_customer's checks: the end of the match is not
\* looked at
SellToCustomerErrNoEndCheck(m, player, customer_index, strain_level) ==
    LET match_state == matchState[m]
        grow_state == growState[match_state.match_id]
        delivery_state == deliveryState[match_state.match_id]
        is_player_a == player = match_state.player_a
        is_player_b == player = match_state.player_b
        inventory == IF is_player_a THEN grow_state.player_a_inventory
                     ELSE grow_state.player_b_inventory
    IN
    IF ~match_state.exists THEN "AccountNotInitialized"
    ELSE IF ~grow_state.exists \/ ~delivery_state.exists THEN "AccountNotInitialized"
    ELSE IF match_state.is_finalized THEN "MatchAlreadyFinalized"
    ELSE IF ~(now >= match_state.start_ts) THEN "MatchNotStarted"
    ELSE IF ~(customer_index < NUM_CUSTOMERS) THEN "InvalidCustomerIndex"
    ELSE IF ~(strain_level >= 1 /\ strain_level <= 3) THEN "InvalidStrainLevel"
    ELSE IF ~(is_player_a \/ is_player_b) THEN "InvalidPlayer"
    ELSE IF ~DeliveryIsCustomerAvailable(delivery_state, customer_index)
        THEN "CustomerNotAvailableForDelivery"
    ELSE IF ~IsCustomerAvailable(match_state, customer_index, now)
        THEN "CustomerOnCooldown"
    ELSE IF ~ValidateStrainForCustomer(customer_index, strain_level)
        THEN "InvalidStrainLevel"
    ELSE IF ~InventoryHas(inventory, strain_level) THEN "InsufficientInventory"
    ELSE IF ~InventoryDecrement(inventory, strain_level).ok
        THEN "InsufficientInventory"
    ELSE Ok

\* grow_state and delivery_state are the accounts of match_state.match_id
SellToCustomerErr(m, player, customer_index, strain_level) ==
    LET match_state == matchState[m]
        grow_state == growState[match_state.match_id]
        delivery_state == deliveryState[match_state.match_id]
        is_player_a == player = match_state.player_a
        is_player_b == player = match_state.player_b
        inventory == IF is_player_a THEN grow_state.player_a_inventory
                     ELSE grow_state.player_b_inventory
    IN
    IF ~match_state.exists THEN "AccountNotInitialized"
    ELSE IF ~grow_state.exists \/ ~delivery_state.exists THEN "AccountNotInitialized"
    ELSE IF match_state.is_finalized THEN "MatchAlreadyFinalized"
    ELSE IF ~(now >= match_state.start_ts) THEN "MatchNotStarted"
    ELSE IF ~(now < match_state.end_ts) THEN "MatchEnded"
    ELSE IF ~(customer_index < NUM_CUSTOMERS) THEN "InvalidCustomerIndex"
    ELSE IF ~(strain_level >= 1 /\ strain_level <= 3) THEN "InvalidStrainLevel"
    ELSE IF ~(is_player_a \/ is_player_b) THEN "InvalidPlayer"
    ELSE IF ~DeliveryIsCustomerAvailable(delivery_state, customer_index)
        THEN "CustomerNotAvailableForDelivery"
    ELSE IF ~IsCustomerAvailable(match_state, customer_index, now)
        THEN "CustomerOnCooldown"
    ELSE IF ~ValidateStrainForCustomer(customer_index, strain_level)
        THEN "InvalidStrainLevel"
    ELSE IF ~InventoryHas(inventory, strain_level) THEN "InsufficientInventory"
    ELSE IF ~InventoryDecrement(inventory, strain_level).ok
        THEN "InsufficientInventory"
    ELSE Ok

SellToCustomer(m, player, customer_index, strain_level) ==
    LET err == SellToCustomerErr(m, player, customer_index, strain_level)
        match_state == matchState[m]
        match_id == match_state.match_id
        grow_state == growState[match_id]
        is_player_a == player = match_state.player_a
        customer_layer == LayerFromIndex(customer_index)
        slots_snapshot == IF is_player_a THEN grow_state.player_a_slots
                          ELSE grow_state.player_b_slots
        variant_id == FindVariantForSale(slots_snapshot, strain_level)
        base_reputation_change == GetReputationChange(customer_layer, strain_level)
        variant_bonus == IF variant_id.some
                         THEN GetVariantRepBonus(variant_id.value) ELSE 0
        total_reputation_change ==
            SaturatingAddI32(base_reputation_change, variant_bonus)
    IN
    /\ IF err = Ok
       THEN /\ growState' =
                  IF is_player_a
                  THEN [growState EXCEPT ![match_id].player_a_inventory =
                            InventoryDecrement(@, strain_level).inv]
                  ELSE [growState EXCEPT ![match_id].player_b_inventory =
                            InventoryDecrement(@, strain_level).inv]
            /\ matchState' =
                  IF is_player_a
                  THEN [matchState EXCEPT
                          ![m].customers[customer_index] =
                              [@ EXCEPT !.last_served_ts = now,
                                        !.total_serves = @ + 1,
                                        !.last_served_by = player],
                          ![m].player_a_sales = @ + 1,
                          ![m].player_a_reputation =
                              ClampReputation(SaturatingAddI32(@, total_reputation_change))]
                  ELSE [matchState EXCEPT
                          ![m].customers[customer_index] =
                              [@ EXCEPT !.last_served_ts = now,
                                        !.total_serves = @ + 1,
                                        !.last_served_by = player],
                          ![m].player_b_sales = @ + 1,
                          ![m].player_b_reputation =
                              ClampReputation(SaturatingAddI32(@, total_reputation_change))]
            /\ UNCHANGED <<calc, harvests, now, stakeState, escrow, wallet,
                           burned, deliveryState, cpi>>
       ELSE UNCHANGED <<now, records>>

(***************************************************************************)
(* instructions/refresh_delivery_slots.rs                                  *)
(***************************************************************************)
RefreshDeliverySlotsErr(match_id, m) ==
    LET delivery_state == deliveryState[match_id]
        match_state == matchState[m]
    IN
    IF ~delivery_state.exists \/ ~match_state.exists THEN "AccountNotInitialized"
    ELSE IF match_state.match_id # match_id THEN "MatchIdMismatch"
    ELSE IF match_state.is_finalized THEN "MatchAlreadyFinalized"
    ELSE IF ~(now >= match_state.start_ts) THEN "MatchNotStarted"
    ELSE IF ~(now < match_state.end_ts) THEN "MatchEnded"
    ELSE IF ~NeedsRefresh(delivery_state, now) THEN "DeliveryRotationTooSoon"
    ELSE Ok

\* A faulty variant of refresh_delivery_slots: the time of the rotation is
\* recorded and the active set is left as it was
RefreshDeliverySlotsKeepsSet(match_id, m) ==
    LET err == RefreshDeliverySlotsErr(match_id, m) IN
    /\ IF err = Ok
       THEN /\ deliveryState' = [deliveryState EXCEPT
                  ![match_id].last_update_ts = now]
            /\ UNCHANGED <<calc, harvests, now, matchState, stakeState,
                           escrow, wallet, burned, growState, cpi>>
       ELSE UNCHANGED <<now, records>>

RefreshDeliverySlots(match_id, m) ==
    LET err == RefreshDeliverySlotsErr(match_id, m)
        sel == SelectDeliverySpots(ComputeDeliverySeed(match_id, now))
    IN
    /\ IF err = Ok
       THEN /\ deliveryState' = [deliveryState EXCEPT
                  ![match_id].available_customers = sel.spots,
                  ![match_id].active_count = sel.count,
                  ![match_id].last_update_ts = now]
            /\ UNCHANGED <<calc, harvests, now, matchState, stakeState,
                           escrow, wallet, burned, growState, cpi>>
       ELSE UNCHANGED <<now, records>>

(***************************************************************************)
(* The transactions that are issued                                        *)
(***************************************************************************)
\* Staking and settlement of the two matches.  No gameplay instruction
\* takes a stake record or a token account.
Next ==
    \/ Tick
    \/ \E in \in InitInputs : InitMatch(in)
    \/ \E h \in Hashes, p \in Players : JoinMatchWithStake(h, p)
    \/ \E h \in Hashes, p \in Players : CancelMatch(h, p)
    \/ \E m \in Hashes, s \in Hashes, p \in Players, d \in Players :
          FinalizeMatch(m, s, p, d)

Spec == Init /\ [][Next]_vars

\* One match, from its creation to its settlement, with its gameplay.  The
\* game accounts are those of match id 12345, set up from either match
\* record.  The legacy harvest instruction writes to no account and is left
\* out.
GameInitInputs == { in \in InitInputs : in.hash = 1 }
GameInputs == { <<1, 12345>>, <<2, 12345>> }
SlotInputs == {0}
LevelInputs == {1, 2}
CustomerInputs == {5, 11, 12}

SalesOf(m) == matchState[m].player_a_sales + matchState[m].player_b_sales

\* the slots of a game that were ever planted
PlantedSlots(grow_state) ==
    Cardinality({ i \in SlotIndices : grow_state.player_a_slots[i].strain_level # 0 })
    + Cardinality({ i \in SlotIndices : grow_state.player_b_slots[i].strain_level # 0 })

NextGame ==
    \/ Tick
    \/ \E in \in GameInitInputs : InitMatch(in)
    \/ \E h \in Hashes, p \in Players : JoinMatchWithStake(h, p)
    \/ \E h \in Hashes, p \in Players : CancelMatch(h, p)
    \/ \E m \in Hashes, s \in Hashes, p \in Players, d \in Players :
          FinalizeMatch(m, s, p, d)
    \/ \E in \in GameInputs : InitGrowState(in[1], in[2])
    \/ \E in \in GameInputs : InitDeliveryState(in[1], in[2])
    \/ \E id \in MatchIds, p \in Players, i \in SlotInputs, l \in LevelInputs :
          /\ PlantedSlots(growState[id]) < MaxPlants
          /\ PlantStrain(id, p, i, l)
    \/ \E id \in MatchIds, p \in Players, i \in SlotInputs :
          HarvestStrain(id, p, i)
    \/ \E m \in Hashes, p \in Players, c \in CustomerInputs, l \in LevelInputs :
          /\ SalesOf(m) < MaxSales
          /\ SellToCustomer(m, p, c, l)
    \/ \E id \in MatchIds, m \in Hashes : RefreshDeliverySlots(id, m)

SpecGame == Init /\ [][NextGame]_vars

(***************************************************************************)
(* Properties of settlement                                                *)
(***************************************************************************)
\* a step in which finalize_match succeeds on match record m and stake
\* record s
FinalizeStep(m, s) ==
    /\ ~matchState[m].is_finalized /\ matchState'[m].is_finalized
    /\ stakeState[s].status = Active /\ stakeState'[s].status = Finalized

\* C1: whenever finalize_match succeeds, the whole escrow balance of that
\* moment is credited to the player with the higher sales count (player A
\* when the counts are equal), whoever calls and whatever destination is
\* supplied, and the escrow is empty afterwards.
C1_PayoutGoesToWinner ==
    [][\A m \in Hashes, s \in Hashes :
          FinalizeStep(m, s) =>
             /\ wallet'[Winner(matchState[m])] =
                   wallet[Winner(matchState[m])] + escrow[s]
             /\ escrow'[s] = 0]_vars

\* C1: player A made the only sale of a finalized match and player B (whose
\* wallet held two stakes at first and paid one) holds the pot
C1_LoserHoldsThePot ==
    /\ matchState[1].is_finalized
    /\ matchState[1].player_a_sales > matchState[1].player_b_sales
    /\ wallet[matchState[1].player_b] > 2 * STAKE_AMOUNT
    /\ escrow[1] = 0

\* C2: finalize_match succeeds at most once on a match record and on a
\* stake record: once either is finalized every further call on it fails,
\* whoever calls, and at most one payout is ever made from an escrow.
C2_FinalizeAtMostOnce ==
    \A m \in Hashes, s \in Hashes :
       /\ cpi[s].payouts <= 1
       /\ (matchState[m].is_finalized \/ stakeState[s].status = Finalized) =>
             \A p \in Players, d \in Players : FinalizeMatchErr(m, s, p, d) # Ok

\* C2: a match was finalized and paid out, and its participants' further
\* calls are refused
C2_FinalizedAndRefused ==
    \E h \in Hashes :
       /\ matchState[h].is_finalized
       /\ stakeState[h].status = Finalized
       /\ cpi[h].payouts = 1
       /\ FinalizeMatchErr(h, h, matchState[h].player_a, matchState[h].player_a)
             = "MatchNotActive"
       /\ FinalizeMatchErr(h, h, matchState[h].player_b, matchState[h].player_a)
             = "MatchNotActive"

\* C3: finalize_match never succeeds on a match record before its end_ts: a
\* call that gets as far as the handler's checks fails with
\* MatchFinalizationTooEarly, and no match record is finalized before its
\* end_ts.
C3_NoEarlyFinalization ==
    \A m \in Hashes :
       /\ matchState[m].is_finalized => now >= matchState[m].end_ts
       /\ (matchState[m].exists /\ now < matchState[m].end_ts) =>
             \A s \in Hashes, p \in Players, d \in Players :
                /\ FinalizeMatchErr(m, s, p, d) # Ok
                /\ ( /\ stakeState[s].exists
                     /\ stakeState[s].status = Active
                     /\ d \in {matchState[m].player_a, matchState[m].player_b}
                     /\ ~matchState[m].is_finalized )
                   => FinalizeMatchErr(m, s, p, d) = "MatchFinalizationTooEarly"

\* C3: the last clock reading before the end of a match whose stake is
\* Active, where a participant's call is refused as too early
C3_RefusedJustBeforeEnd ==
    \E m \in Hashes :
       /\ stakeState[m].exists /\ stakeState[m].status = Active
       /\ now = matchState[m].end_ts - 1
       /\ escrow[m] > 0
       /\ FinalizeMatchErr(m, m, matchState[m].player_a, matchState[m].player_a)
             = "MatchFinalizationTooEarly"

\* C4: join_match_with_stake escrows player B's stake, burns
\* floor((a_escrowed + b_escrowed) * 10 / 100) from the escrow and sets the
\* status Active in one step: a Pending stake has no stake of player B and
\* nothing burned, an Active one has had exactly one burn and its escrow
\* holds 2X - floor(2X * 10 / 100).
C4_BurnAndActivateTogether ==
    \A h \in Hashes :
       stakeState[h].exists =>
          /\ stakeState[h].status = Pending =>
                /\ stakeState[h].player_b_escrowed = 0
                /\ cpi[h].burns = 0
                /\ escrow[h] = STAKE_AMOUNT
          /\ stakeState[h].status = Active =>
                /\ stakeState[h].player_b_escrowed = STAKE_AMOUNT
                /\ cpi[h].burns = 1
                /\ escrow[h] = 2 * STAKE_AMOUNT - ((2 * STAKE_AMOUNT * 10) \div 100)
          /\ burned = ((2 * STAKE_AMOUNT * 10) \div 100)
                         * Cardinality({ g \in Hashes : cpi[g].burns = 1 })

\* C4: player B has joined: the stake is Active and the burn is made
C4_Joined ==
    \E h \in Hashes :
       /\ stakeState[h].exists /\ stakeState[h].status = Active
       /\ burned > 0
       /\ wallet[stakeState[h].player_b] < 2 * STAKE_AMOUNT
       /\ escrow[h] = 1800000

\* a step in which cancel_match refunds from the escrow of h
CancelStep(h) == cpi'[h].refunds # cpi[h].refunds

C5_CancelledIsSettled ==
    \A h \in Hashes :
       (stakeState[h].exists /\ stakeState[h].status = Cancelled) =>
          /\ escrow[h] = 0
          /\ cpi[h].refunds = 1 /\ cpi[h].burns = 0 /\ cpi[h].payouts = 0
          /\ \A p \in Players : CancelMatchErr(h, p) # Ok
          /\ CancelMatchErr(h, stakeState[h].player_a) = "MatchNotPending"

C5_RefundStep ==
    \A h \in Hashes :
       CancelStep(h) =>
          /\ stakeState[h].status = Pending
          /\ stakeState'[h].status = Cancelled
          /\ wallet'[stakeState[h].player_a] =
                wallet[stakeState[h].player_a] + stakeState[h].player_a_escrowed
          /\ stakeState[h].player_a_escrowed = STAKE_AMOUNT
          /\ escrow'[h] = 0
          /\ burned' = burned

\* C5: a successful cancel_match returns exactly player A's escrowed stake
\* to player A, burns nothing and leaves the status Cancelled and the escrow
\* empty; every later cancel_match fails (with MatchNotPending for player A,
\* the one caller the account checks admit) and the refund is made at most
\* once.
C5_CancelRefundsOnce ==
    /\ []C5_CancelledIsSettled
    /\ [][C5_RefundStep]_vars
    /\ [](\A h \in Hashes : cpi[h].refunds <= 1)

\* C5: a stake was cancelled and player A has the stake back
C5_Refunded ==
    \E h \in Hashes :
       /\ stakeState[h].exists /\ stakeState[h].status = Cancelled
       /\ cpi[h].refunds = 1
       /\ stakeState[h].player_a = 1
       /\ wallet[1] = STAKE_AMOUNT
       /\ CancelMatchErr(h, 1) = "MatchNotPending"

\* C6: for a Pending stake that player B has not joined, player A's
\* cancel_match fails with CancelTooEarly at every now < created_at + 300
\* and succeeds at every now >= created_at + 300; can_cancel says the same.
C6_CancelBoundary ==
    \A h \in Hashes :
       ( /\ stakeState[h].exists
         /\ stakeState[h].status = Pending
         /\ stakeState[h].player_b_escrowed = 0 ) =>
          /\ now < stakeState[h].created_at + 300 =>
                /\ CancelMatchErr(h, stakeState[h].player_a) = "CancelTooEarly"
                /\ ~CanCancel(stakeState[h], now)
          /\ now >= stakeState[h].created_at + 300 =>
                /\ CancelMatchErr(h, stakeState[h].player_a) = Ok
                /\ CanCancel(stakeState[h], now)

\* C6: a stake is cancelled at the clock reading created_at + 300, the
\* reading after created_at + 299
C6_CancelledAtBoundary ==
    \E h \in Hashes :
       /\ stakeState[h].exists /\ stakeState[h].status = Cancelled
       /\ now = stakeState[h].created_at + 300
       /\ (now - 1) \in TimePoints

\* C7: the status of a stake changes only Pending -> Active, Pending ->
\* Cancelled or Active -> Finalized; Finalized and Cancelled are never left.
C7_StatusTransitions ==
    [][\A h \in Hashes :
          (stakeState[h].exists /\ stakeState'[h].status # stakeState[h].status) =>
             <<stakeState[h].status, stakeState'[h].status>> \in
                { <<Pending, Active>>, <<Pending, Cancelled>>,
                  <<Active, Finalized>> }]_vars

\* C7: one stake went Pending -> Active -> Finalized and the other Pending
\* -> Cancelled
C7_BothTerminalStatuses ==
    \E h \in Hashes, g \in Hashes :
       /\ stakeState[h].exists /\ stakeState[h].status = Finalized
       /\ stakeState[g].exists /\ stakeState[g].status = Cancelled

\* C8: of a join_match_with_stake by player B and a cancel_match by player
\* A on one Pending stake at most one succeeds: no escrow has both a refund
\* and a burn, and the later of the two calls fails with MatchNotPending.
C8_JoinCancelRace ==
    \A h \in Hashes :
       stakeState[h].exists =>
          /\ cpi[h].refunds + cpi[h].burns <= 1
          /\ stakeState[h].status = Active =>
                CancelMatchErr(h, stakeState[h].player_a) = "MatchNotPending"
          /\ stakeState[h].status = Cancelled =>
                JoinMatchWithStakeErr(h, stakeState[h].player_b) = "MatchNotPending"

\* C8: player A's cancel succeeded while player B held the stake to join
\* with, and player B's join is now refused
C8_CancelWonTheRace ==
    \E h \in Hashes :
       /\ stakeState[h].exists /\ stakeState[h].status = Cancelled
       /\ cpi[h].refunds = 1 /\ cpi[h].burns = 0
       /\ wallet[stakeState[h].player_b] >= STAKE_AMOUNT
       /\ JoinMatchWithStakeErr(h, stakeState[h].player_b) = "MatchNotPending"

\* C9: is_finalized is true exactly when the status of the stake is
\* Finalized: no match is finalized with its escrow unpaid, no stake is
\* Finalized with its match not finalized.
C9_FinalizedIffSettled ==
    \A h \in Hashes :
       (matchState[h].exists /\ stakeState[h].exists) =>
          (matchState[h].is_finalized <=> stakeState[h].status = Finalized)

\* C9: match 1 is finalized and its stake is Active with the pot in escrow,
\* while the stake of match 2 is Finalized and match 2 is not
C9_FinalizedAndUnpaid ==
    /\ matchState[1].is_finalized
    /\ stakeState[1].status = Active /\ escrow[1] > 0
    /\ stakeState[2].status = Finalized /\ escrow[2] = 0
    /\ ~matchState[2].is_finalized

(***************************************************************************)
(* The reputation of a player over any sequence of sales                   *)
(***************************************************************************)
\* init_match sets both reputations to 0
InitReputation ==
    /\ Genesis
    /\ calc = [fn |-> "reputation", value |-> 0]

\* The reputation update of sell_to_customer for a sale of a level to a
\* customer of a layer, with the variant found, whatever the checks of the
\* sale allow
UpdateReputation(customer_layer, strain_level, variant_id) ==
    LET base_reputation_change == GetReputationChange(customer_layer, strain_level)
        variant_bonus == IF variant_id.some
                         THEN GetVariantRepBonus(variant_id.value) ELSE 0
        total_reputation_change ==
            SaturatingAddI32(base_reputation_change, variant_bonus)
    IN
    /\ calc.fn = "reputation"
    /\ calc' = [calc EXCEPT !.value =
                  ClampReputation(SaturatingAddI32(@, total_reputation_change))]
    /\ UNCHANGED <<now, accounts, harvests>>

NextReputation ==
    \/ \E layer \in 1..3, l \in 1..3,
          v \in {None} \cup {Some(i) : i \in 0..(VARIANT_COUNT - 1)} :
          UpdateReputation(layer, l, v)

SpecReputation == InitReputation /\ [][NextReputation]_vars

\* C18: after any sequence of sales, the reputations of both players lie in
\* [-1000, 1000].
C18_ReputationBounded ==
    /\ calc.fn = "reputation" => (calc.value >= -1000 /\ calc.value <= 1000)
    /\ \A m \in Hashes :
          /\ matchState[m].player_a_reputation >= -1000
          /\ matchState[m].player_a_reputation <= 1000
          /\ matchState[m].player_b_reputation >= -1000
          /\ matchState[m].player_b_reputation <= 1000

\* C18: the reputation stands at the upper end, where the next gain is cut
C18_AtTheTop ==
    /\ calc.fn = "reputation"
    /\ calc.value = 1000
    /\ SaturatingAddI32(calc.value, 4) > 1000


(***************************************************************************)
(* Properties of gameplay                                                  *)
(***************************************************************************)
C10_GameplayRefused ==
    /\ \A id \in MatchIds, p \in Players, i \in SlotIndices :
          ( /\ growState[id].exists
            /\ matchState[growState[id].match_id_hash].is_finalized ) =>
             /\ \A l \in 1..3 : PlantStrainErr(id, p, i, l) = "MatchAlreadyFinalized"
             /\ HarvestStrainErr(id, p, i) = "MatchAlreadyFinalized"
    /\ \A m \in Hashes :
          matchState[m].is_finalized =>
             /\ \A p \in Players, c \in 0..(NUM_CUSTOMERS - 1), l \in 1..3 :
                   /\ SellToCustomerErr(m, p, c, l) # Ok
                   /\ ( /\ growState[matchState[m].match_id].exists
                        /\ deliveryState[matchState[m].match_id].exists ) =>
                         SellToCustomerErr(m, p, c, l) = "MatchAlreadyFinalized"
             /\ \A id \in MatchIds :
                   /\ RefreshDeliverySlotsErr(id, m) # Ok
                   /\ ( /\ deliveryState[id].exists
                        /\ matchState[m].match_id = id ) =>
                         RefreshDeliverySlotsErr(id, m) = "MatchAlreadyFinalized"

C10_MatchRecordFrozen ==
    \A m \in Hashes :
       matchState[m].is_finalized => matchState'[m] = matchState[m]

\* C10: once is_finalized is true every plant_strain, harvest_strain,
\* sell_to_customer and refresh_delivery_slots call on the match fails (with
\* MatchAlreadyFinalized when its accounts exist), and no field of the match
\* record changes again.
C10_NoGameplayAfterFinalization ==
    /\ []C10_GameplayRefused
    /\ [][C10_MatchRecordFrozen]_vars

\* C10: a match with a sale is finalized, its game accounts exist, and the
\* players' calls are refused
C10_FinalizedWithGame ==
    /\ matchState[1].is_finalized
    /\ matchState[1].player_a_sales + matchState[1].player_b_sales > 0
    /\ growState[12345].exists /\ deliveryState[12345].exists
    /\ SellToCustomerErr(1, 1, 11, 1) = "MatchAlreadyFinalized"
    /\ HarvestStrainErr(12345, 2, 0) = "MatchAlreadyFinalized"

(***************************************************************************)
(* Gameplay of one match from before its start to after its end            *)
(***************************************************************************)
\* The clock readings of the gameplay: before the start of the match, its
\* start, the growth time of a level 1 plant, the two sides of the cooldown
\* of 30 seconds after a sale at GENESIS_TS + 20, and the end of the match.
PlayTimePoints ==
    { GENESIS_TS, GENESIS_TS + 10, GENESIS_TS + 20, GENESIS_TS + 49,
      GENESIS_TS + 50, GENESIS_TS + 10 + MATCH_DURATION }

TickPlay ==
    /\ \E t \in PlayTimePoints :
          /\ t > now
          /\ \A u \in PlayTimePoints : u > now => t <= u
          /\ now' = t
    /\ UNCHANGED records

\* The match and its game accounts are created at GENESIS_TS; the match
\* starts 10 seconds later.  The delivery rotation is not refreshed: no
\* clock reading of the gameplay lies a rotation interval after GENESIS_TS
\* and before the end of the match.
PlayInitInputs ==
    { [hash |-> 1, match_id |-> Some(12345), start_ts |-> GENESIS_TS + 10,
       player_a |-> 1, player_b |-> 2] }
PlayCustomers == {2, 5, 11, 12}

\* the plants, the harvested items and the sold items of a game
ItemsOf(id) ==
    LET g == growState[id] IN
    Cardinality({ i \in SlotIndices : g.player_a_slots[i].plant_state.tag # "Empty" })
    + Cardinality({ i \in SlotIndices : g.player_b_slots[i].plant_state.tag # "Empty" })
    + InventoryTotal(g.player_a_inventory) + InventoryTotal(g.player_b_inventory)
    + SalesOf(g.match_id_hash)

NextPlay ==
    \/ TickPlay
    \/ \E in \in PlayInitInputs : now = GENESIS_TS /\ InitMatch(in)
    \/ now = GENESIS_TS /\ InitGrowState(1, 12345)
    \/ now = GENESIS_TS /\ InitDeliveryState(1, 12345)
    \/ \E id \in MatchIds, p \in Players, i \in SlotInputs, l \in LevelInputs :
          /\ growState[id].exists
          /\ ItemsOf(id) < MaxItems
          /\ PlantStrain(id, p, i, l)
    \/ \E id \in MatchIds, p \in Players, i \in SlotInputs :
          HarvestStrain(id, p, i)
    \/ \E m \in Hashes, p \in Players, c \in PlayCustomers, l \in LevelInputs :
          SellToCustomer(m, p, c, l)

SpecPlay == Init /\ [][NextPlay]_vars

(***************************************************************************)
(* One player filling the inventory                                        *)
(***************************************************************************)
\* the slots and the inventory of a player of a game
SlotsOfPlayer(grow_state, player) ==
    IF player = grow_state.player_a THEN grow_state.player_a_slots
    ELSE grow_state.player_b_slots
InventoryOfPlayer(grow_state, player) ==
    IF player = grow_state.player_a THEN grow_state.player_a_inventory
    ELSE grow_state.player_b_inventory

\* The clock readings of three rounds of level 1 plants
StockTimePoints ==
    { GENESIS_TS, GENESIS_TS + 10, GENESIS_TS + 20, GENESIS_TS + 30 }

TickStock ==
    /\ \E t \in StockTimePoints :
          /\ t > now
          /\ \A u \in StockTimePoints : u > now => t <= u
          /\ now' = t
    /\ UNCHANGED records

\* The match of the gameplay with one of the two players growing level 1
\* plants in all six slots and selling to customer 11.  The player fills
\* the slots in the order of their indices before the first harvest,
\* harvests in that order, and plants again once the inventory is full.
NextStock ==
    \/ TickStock
    \/ \E in \in PlayInitInputs : now = GENESIS_TS /\ InitMatch(in)
    \/ now = GENESIS_TS /\ InitGrowState(1, 12345)
    \/ now = GENESIS_TS /\ InitDeliveryState(1, 12345)
    \/ \E p \in {1, 2}, i \in SlotIndices :
          LET mine == SlotsOfPlayer(growState[12345], p)
              theirs == SlotsOfPlayer(growState[12345], 3 - p)
          IN
          /\ growState[12345].exists
          /\ \A j \in SlotIndices : theirs[j].strain_level = 0
          /\ \A j \in SlotIndices : j < i => ~IsSlotAvailable(mine[j])
          /\ \/ \A j \in SlotIndices : mine[j].last_harvested_ts = 0
             \/ InventoryTotal(InventoryOfPlayer(growState[12345], p))
                   >= INVENTORY_CAPACITY
          /\ PlantStrain(12345, p, i, 1)
    \/ \E p \in {1, 2}, i \in SlotIndices :
          /\ \A j \in SlotIndices : j < i => HarvestStrainErr(12345, p, j) # Ok
          /\ HarvestStrain(12345, p, i)
    \/ \E p \in {1, 2} : SellToCustomer(1, p, 11, 1)

SpecStock == Init /\ [][NextStock]_vars

(***************************************************************************)
(* calculate_burn_amount over the 64-bit range                             *)
(***************************************************************************)
\* Totals around the largest one whose product by BURN_PERCENTAGE fits 64
\* bits (0x1999999999999999), and the total a join produces.
BurnInputs ==
    {<<lo, m, m, m, m, m, m, hi>> :
        lo \in {0, 100, 153, 154, 255}, m \in {0, 153, 255},
        hi \in {0, 25, 26, 255}}
    \cup {U64FromNat(2 * STAKE_AMOUNT)}

InitBurn ==
    /\ Genesis
    /\ calc \in {[fn |-> "calculate_burn_amount", arg |-> t, done |-> FALSE,
                  result |-> U64Zero] : t \in BurnInputs}

ApplyCalculateBurnAmount ==
    /\ calc.fn = "calculate_burn_amount"
    /\ ~calc.done
    /\ calc' = [calc EXCEPT !.done = TRUE,
                            !.result = CalculateBurnAmount(calc.arg)]
    /\ UNCHANGED <<now, accounts, harvests>>

NextBurn ==
    \/ ApplyCalculateBurnAmount

SpecBurn == InitBurn /\ [][NextBurn]_vars

\* Byte i (1..9) of floor(x * BURN_PERCENTAGE / 100), from the 72-bit product
RECURSIVE ExactBurnRem(_, _)
ExactBurnRem(x, i) ==
    IF i >= 9 THEN 0
    ELSE (ExactBurnRem(x, i + 1) * 256
          + U64WideMulByte(x, U64FromNat(BURN_PERCENTAGE), i + 1)) % 100

ExactBurnByte(x, i) ==
    (ExactBurnRem(x, i) * 256
     + U64WideMulByte(x, U64FromNat(BURN_PERCENTAGE), i)) \div 100

\* floor(x * BURN_PERCENTAGE / 100); it always fits 64 bits
ExactBurn(x) ==
    <<ExactBurnByte(x, 1), ExactBurnByte(x, 2), ExactBurnByte(x, 3),
      ExactBurnByte(x, 4), ExactBurnByte(x, 5), ExactBurnByte(x, 6),
      ExactBurnByte(x, 7), ExactBurnByte(x, 8)>>

\* C11: for every 64-bit total, calculate_burn_amount returns
\* floor(total * 10 / 100); it never returns another amount (such as 0) when
\* total * 10 does not fit 64 bits.
C11_BurnIsExact ==
    (calc.fn = "calculate_burn_amount" /\ calc.done)
        => calc.result = ExactBurn(calc.arg)

\* calculate_burn_amount has returned 0 for a total whose tenth is not 0
C11_SilentZero ==
    /\ calc.fn = "calculate_burn_amount"
    /\ calc.done
    /\ U64MulOverflows(calc.arg, U64FromNat(BURN_PERCENTAGE))
    /\ calc.result = U64Zero
    /\ ExactBurn(calc.arg) # U64Zero

\* where the product fits, the amount is exact
C11_ExactWhereNoOverflow ==
    (/\ calc.fn = "calculate_burn_amount"
     /\ calc.done
     /\ ~U64MulOverflows(calc.arg, U64FromNat(BURN_PERCENTAGE)))
        => calc.result = ExactBurn(calc.arg)

(***************************************************************************)
(* Properties of gameplay                                                  *)
(***************************************************************************)
\* the match is running and not finalized
IsOpen(match_state) ==
    /\ match_state.start_ts <= now
    /\ now < match_state.end_ts
    /\ ~match_state.is_finalized

C12_WindowEnforced ==
    /\ \A id \in MatchIds, p \in Players, i \in SlotIndices :
          growState[id].exists =>
             LET match_state == matchState[growState[id].match_id_hash] IN
             /\ \A l \in 1..3 :
                   /\ PlantStrainErr(id, p, i, l) = Ok => IsOpen(match_state)
                   /\ (~match_state.is_finalized /\ now < match_state.start_ts)
                         => PlantStrainErr(id, p, i, l) = "MatchNotStarted"
                   /\ (~match_state.is_finalized /\ now >= match_state.end_ts)
                         => PlantStrainErr(id, p, i, l) = "MatchEnded"
             /\ HarvestStrainErr(id, p, i) = Ok => IsOpen(match_state)
             /\ (~match_state.is_finalized /\ now < match_state.start_ts)
                   => HarvestStrainErr(id, p, i) = "MatchNotStarted"
             /\ (~match_state.is_finalized /\ now >= match_state.end_ts)
                   => HarvestStrainErr(id, p, i) = "MatchEnded"
    /\ \A m \in Hashes, p \in Players, c \in 0..(NUM_CUSTOMERS - 1), l \in 1..3 :
          LET match_state == matchState[m] IN
          /\ SellToCustomerErr(m, p, c, l) = Ok => IsOpen(match_state)
          /\ ( /\ match_state.exists
               /\ growState[match_state.match_id].exists
               /\ deliveryState[match_state.match_id].exists
               /\ ~match_state.is_finalized ) =>
                /\ now < match_state.start_ts
                      => SellToCustomerErr(m, p, c, l) = "MatchNotStarted"
                /\ now >= match_state.end_ts
                      => SellToCustomerErr(m, p, c, l) = "MatchEnded"

\* outside the window of a match its sales, reputations, customers, slots
\* and inventories stay as they are
C12_ClosedMatchFrozen ==
    /\ \A m \in Hashes :
          (matchState[m].exists /\ ~IsOpen(matchState[m])) =>
             /\ matchState'[m].player_a_sales = matchState[m].player_a_sales
             /\ matchState'[m].player_b_sales = matchState[m].player_b_sales
             /\ matchState'[m].player_a_reputation = matchState[m].player_a_reputation
             /\ matchState'[m].player_b_reputation = matchState[m].player_b_reputation
             /\ matchState'[m].customers = matchState[m].customers
    /\ \A id \in MatchIds :
          ( /\ growState[id].exists
            /\ ~IsOpen(matchState[growState[id].match_id_hash]) ) =>
             growState'[id] = growState[id]

\* C12: plant_strain, harvest_strain and sell_to_customer succeed only when
\* start_ts <= now < end_ts and the match is not finalized; before start_ts
\* they fail with MatchNotStarted and from end_ts on with MatchEnded, and
\* outside the window nothing of the game changes: the sales counters are
\* frozen from end_ts onward.
C12_GameplayOnlyInWindow ==
    /\ []C12_WindowEnforced
    /\ [][C12_ClosedMatchFrozen]_vars

\* C12: the match has ended with a sale made and an item still in stock,
\* which can no longer be sold
C12_EndedWithStock ==
    \E m \in Hashes :
       LET match_state == matchState[m] IN
       /\ match_state.exists
       /\ now >= match_state.end_ts
       /\ SalesOf(m) >= 1
       /\ growState[match_state.match_id].exists
       /\ InventoryTotal(growState[match_state.match_id].player_a_inventory) >= 1
       /\ SellToCustomerErr(m, match_state.player_a, 11, 1) = "MatchEnded"

\* the cooldown of a customer of a layer
CooldownOfLayer(layer) == IF layer = 1 THEN 30 ELSE IF layer = 2 THEN 45 ELSE 75

\* the game accounts of the match exist and player may sell in it now
MaySell(m, player) ==
    /\ matchState[m].exists
    /\ growState[matchState[m].match_id].exists
    /\ deliveryState[matchState[m].match_id].exists
    /\ IsOpen(matchState[m])
    /\ player \in {matchState[m].player_a, matchState[m].player_b}

\* a step in which a sale to customer c of match m succeeds
SaleStep(m, c) ==
    /\ matchState[m].exists
    /\ matchState'[m].customers[c].total_serves
          = matchState[m].customers[c].total_serves + 1

C13_CooldownRefused ==
    \A m \in Hashes, p \in Players, c \in 0..(NUM_CUSTOMERS - 1), l \in 1..3 :
       LET customer == matchState[m].customers[c] IN
       ( /\ matchState[m].exists
         /\ customer.total_serves > 0
         /\ now < customer.last_served_ts + CooldownOfLayer(LayerFromIndex(c)) ) =>
          /\ SellToCustomerErr(m, p, c, l) # Ok
          /\ ( /\ MaySell(m, p)
               /\ DeliveryIsCustomerAvailable(
                     deliveryState[matchState[m].match_id], c) ) =>
                SellToCustomerErr(m, p, c, l) = "CustomerOnCooldown"

C13_SalesSpaced ==
    \A m \in Hashes, c \in 0..(NUM_CUSTOMERS - 1) :
       (SaleStep(m, c) /\ matchState[m].customers[c].total_serves > 0) =>
          now >= matchState[m].customers[c].last_served_ts
                    + CooldownOfLayer(LayerFromIndex(c))

\* C13: between two successful sales to the same customer, by whichever
\* players, at least the cooldown of the customer's layer elapses (30, 45, 75
\* for layers 1, 2, 3); a sale before last_served + cooldown fails with
\* CustomerOnCooldown.
C13_CustomerCooldown ==
    /\ []C13_CooldownRefused
    /\ [][C13_SalesSpaced]_vars

\* C13: a customer of layer 1 was served by player A and, exactly 30 seconds
\* later, by player B
C13_ServedTwiceAtCooldown ==
    \E m \in Hashes, c \in 11..(NUM_CUSTOMERS - 1) :
       /\ matchState[m].exists
       /\ matchState[m].customers[c].total_serves = 2
       /\ matchState[m].customers[c].last_served_by = matchState[m].player_b
       /\ matchState[m].player_a_sales = 1
       /\ now = matchState[m].customers[c].last_served_ts
       /\ now = GENESIS_TS + 50

\* c is among the first active_count entries of the stored active set
InStoredActiveSet(delivery_state, c) ==
    \E i \in 1..delivery_state.active_count :
        delivery_state.available_customers[i] = c

C14_InactiveRefused ==
    \A m \in Hashes, p \in Players, c \in 0..(NUM_CUSTOMERS - 1), l \in 1..3 :
       ( /\ matchState[m].exists
         /\ ~InStoredActiveSet(deliveryState[matchState[m].match_id], c) ) =>
          /\ SellToCustomerErr(m, p, c, l) # Ok
          /\ MaySell(m, p) =>
                SellToCustomerErr(m, p, c, l) = "CustomerNotAvailableForDelivery"

C14_SalesInActiveSet ==
    \A m \in Hashes, c \in 0..(NUM_CUSTOMERS - 1) :
       SaleStep(m, c) =>
          InStoredActiveSet(deliveryState[matchState[m].match_id], c)

\* C14: a sale to a customer that is not among the first active_count
\* entries of the stored active set fails with
\* CustomerNotAvailableForDelivery, whatever else holds; no successful sale
\* targets a customer outside the stored active set.
C14_OnlyActiveCustomers ==
    /\ []C14_InactiveRefused
    /\ [][C14_SalesInActiveSet]_vars

\* C14: the stored active set, computed in a later rotation than that of
\* GENESIS_TS, does not hold customer 5; the customer is off cooldown and
\* accepts level 1, player A holds a level 1 item and the match is open, and
\* the sale is refused
C14_RotatedOutRefused ==
    \E m \in Hashes :
       LET match_state == matchState[m]
           id == match_state.match_id
       IN
       /\ MaySell(m, match_state.player_a)
       /\ deliveryState[id].last_update_ts > GENESIS_TS
       /\ ~InStoredActiveSet(deliveryState[id], 5)
       /\ IsCustomerAvailable(match_state, 5, now)
       /\ ValidateStrainForCustomer(5, 1)
       /\ InventoryHas(growState[id].player_a_inventory, 1)
       /\ SellToCustomerErr(m, match_state.player_a, 5, 1)
             = "CustomerNotAvailableForDelivery"

\* the levels a customer of a layer accepts
Compatible(layer, strain_level) ==
    \/ layer = 1 /\ strain_level = 1
    \/ layer = 2 /\ strain_level \in {1, 2}
    \/ layer = 3 /\ strain_level \in {2, 3}

\* the record of a side ("a" or "b") of a match and of its game
PlayerOf(match_state, side) ==
    IF side = "a" THEN match_state.player_a ELSE match_state.player_b
SalesBy(match_state, side) ==
    IF side = "a" THEN match_state.player_a_sales ELSE match_state.player_b_sales
ReputationOf(match_state, side) ==
    IF side = "a" THEN match_state.player_a_reputation
    ELSE match_state.player_b_reputation
InventoryOf(grow_state, side) ==
    IF side = "a" THEN grow_state.player_a_inventory
    ELSE grow_state.player_b_inventory
SlotsOf(grow_state, side) ==
    IF side = "a" THEN grow_state.player_a_slots ELSE grow_state.player_b_slots
OtherSide(side) == IF side = "a" THEN "b" ELSE "a"

\* a step in which the player of a side sells an item of level l to
\* customer c of match m
SaleBy(m, side, c, l) ==
    LET id == matchState[m].match_id IN
    /\ SaleStep(m, c)
    /\ SalesBy(matchState'[m], side) = SalesBy(matchState[m], side) + 1
    /\ InventoryGet(InventoryOf(growState'[id], side), l)
          = InventoryGet(InventoryOf(growState[id], side), l) - 1

C15_IncompatibleRefused ==
    \A m \in Hashes, p \in Players, c \in 0..(NUM_CUSTOMERS - 1), l \in 0..4 :
       ~Compatible(LayerFromIndex(c), l) =>
          /\ SellToCustomerErr(m, p, c, l) # Ok
          /\ ( /\ MaySell(m, p)
               /\ InStoredActiveSet(deliveryState[matchState[m].match_id], c)
               /\ IsCustomerAvailable(matchState[m], c, now) ) =>
                SellToCustomerErr(m, p, c, l) = "InvalidStrainLevel"

C15_SalesCompatible ==
    \A m \in Hashes, c \in 0..(NUM_CUSTOMERS - 1) :
       SaleStep(m, c) =>
          \E side \in {"a", "b"}, l \in 1..3 :
             /\ SaleBy(m, side, c, l)
             /\ Compatible(LayerFromIndex(c), l)

\* C15: a sale succeeds only when the level is one the customer's layer
\* accepts (layer 1: level 1; layer 2: levels 1-2; layer 3: levels 2-3); an
\* incompatible sale is rejected with InvalidStrainLevel and costs the seller
\* nothing.
C15_CompatibleSalesOnly ==
    /\ []C15_IncompatibleRefused
    /\ [][C15_SalesCompatible]_vars

\* C15: player A holds a level 2 item and offers it to customer 11, of layer
\* 1, which is active and was never served; the sale is refused
C15_Level2RefusedByLayer1 ==
    \E m \in Hashes :
       LET match_state == matchState[m]
           id == match_state.match_id
       IN
       /\ MaySell(m, match_state.player_a)
       /\ InStoredActiveSet(deliveryState[id], 11)
       /\ match_state.customers[11].total_serves = 0
       /\ InventoryGet(growState[id].player_a_inventory, 2) >= 1
       /\ SellToCustomerErr(m, match_state.player_a, 11, 2) = "InvalidStrainLevel"

BaseReputation(layer, strain_level) ==
    IF layer = 1 THEN (IF strain_level = 1 THEN 1 ELSE -2)
    ELSE IF layer = 2
    THEN (IF strain_level = 2 THEN 2 ELSE IF strain_level = 1 THEN 1 ELSE -2)
    ELSE (IF strain_level = 3 THEN 3 ELSE IF strain_level = 2 THEN 1 ELSE -3)

\* the bonus of the variant the sale finds, if it finds one
VariantBonus(variant) ==
    IF ~variant.some THEN 0
    ELSE IF variant.value = 0 THEN -1
    ELSE IF variant.value = 2 THEN 1
    ELSE 0

Clamp(x, lo, hi) == IF x < lo THEN lo ELSE IF x > hi THEN hi ELSE x

C17_TableAgrees ==
    \A layer \in 1..3, l \in 1..3 :
       GetReputationChange(layer, l) = BaseReputation(layer, l)

C17_ReputationUpdate ==
    \A m \in Hashes, c \in 0..(NUM_CUSTOMERS - 1) :
       SaleStep(m, c) =>
          \E side \in {"a", "b"}, l \in 1..3 :
             LET id == matchState[m].match_id
                 variant == FindVariantForSale(SlotsOf(growState[id], side), l)
             IN
             /\ SaleBy(m, side, c, l)
             /\ ReputationOf(matchState'[m], side) =
                   Clamp(ReputationOf(matchState[m], side)
                            + BaseReputation(LayerFromIndex(c), l)
                            + VariantBonus(variant),
                         -1000, 1000)

\* C17: a successful sale turns the seller's reputation into
\* clamp(old + base + bonus, -1000, 1000), base being the table value of the
\* customer's layer and the level sold, and bonus -1, 0, +1 for the variant
\* 0, 1, 2 that the sale finds (0 when it finds none).
C17_ReputationOfSale ==
    /\ []C17_TableAgrees
    /\ [][C17_ReputationUpdate]_vars

\* C17: player A has sold a level 2 item of variant 0 to customer 5, of
\* layer 2, and has reputation 2 - 1
C17_Level2SoldAtABonus ==
    \E m \in Hashes :
       LET match_state == matchState[m]
           grow_state == growState[match_state.match_id]
       IN
       /\ match_state.exists
       /\ grow_state.exists
       /\ match_state.player_a_sales = 1
       /\ match_state.customers[5].last_served_by = match_state.player_a
       /\ grow_state.player_a_slots[0].strain_level = 2
       /\ grow_state.player_a_slots[0].variant_id = 0
       /\ grow_state.player_a_slots[0].plant_state.tag = "Empty"
       /\ InventoryTotal(grow_state.player_a_inventory) = 0
       /\ match_state.player_a_reputation = 1

\* C19: the variant bonus applied to a sale of level L is that of the
\* variant the seller harvested last for level L (the greatest harvest
\* time), and it is 0 for want of a variant only when the seller has
\* harvested no plant of level L, in every sequence of plantings, harvests
\* and sales, replanting included.
C19_BonusOfLatestHarvest ==
    [][\A m \in Hashes, c \in 0..(NUM_CUSTOMERS - 1) :
          SaleStep(m, c) =>
             \E side \in {"a", "b"}, l \in 1..3 :
                LET id == matchState[m].match_id
                    latest == harvests[id][side][l].variants
                    old == ReputationOf(matchState[m], side)
                    base == BaseReputation(LayerFromIndex(c), l)
                IN
                /\ SaleBy(m, side, c, l)
                /\ \/ \E v \in latest :
                         ReputationOf(matchState'[m], side) =
                            Clamp(old + base + VariantBonus(Some(v)), -1000, 1000)
                   \/ /\ latest = {}
                      /\ ReputationOf(matchState'[m], side) =
                            Clamp(old + base, -1000, 1000)
      ]_vars

\* C19: player A has sold a level 1 item of variant 0, the only plant ever
\* harvested, to customer 11 after replanting its slot, and the reputation
\* shows the sale without the bonus of -1
C19_HarvestForgotten ==
    \E m \in Hashes :
       LET match_state == matchState[m]
           id == match_state.match_id
       IN
       /\ match_state.exists
       /\ growState[id].exists
       /\ harvests[id]["a"][1].variants = {0}
       /\ harvests[id]["a"][2].variants = {}
       /\ growState[id].player_a_slots[0].plant_state.tag = "Growing"
       /\ match_state.player_a_sales = 1
       /\ match_state.customers[11].last_served_by = match_state.player_a
       /\ match_state.player_a_reputation = 1

\* the number of items of an inventory
ItemCount(inv) == inv.level1 + inv.level2 + inv.level3

C20_InventoryBounded ==
    \A id \in MatchIds, side \in {"a", "b"} :
       LET inv == InventoryOf(growState[id], side) IN
       /\ ItemCount(inv) <= 6
       /\ inv.level1 >= 0
       /\ inv.level2 >= 0
       /\ inv.level3 >= 0

C20_FullRefused ==
    \A id \in MatchIds, side \in {"a", "b"}, i \in SlotIndices :
       LET grow_state == growState[id]
           player == IF side = "a" THEN grow_state.player_a ELSE grow_state.player_b
       IN
       (grow_state.exists /\ ItemCount(InventoryOf(grow_state, side)) = 6) =>
          /\ HarvestStrainErr(id, player, i) # Ok
          /\ ( /\ IsOpen(matchState[grow_state.match_id_hash])
               /\ AdvanceIfReady(SlotsOf(grow_state, side)[i], now).plant_state.tag
                     = "Ready" ) =>
                HarvestStrainErr(id, player, i) = "InventoryFull"

\* C20: whatever harvests and sales are made, each player's inventory holds
\* at most 6 items and no negative count of a level; a harvest attempted
\* with 6 items in the inventory fails with InventoryFull.
C20_InventoryWithinCapacity ==
    /\ C20_InventoryBounded
    /\ C20_FullRefused

\* C20: player A has sold an item and holds 6 again, and the plant in slot 1
\* is ready; its harvest is refused
C20_SeventhRefused ==
    \E m \in Hashes :
       LET match_state == matchState[m]
           grow_state == growState[match_state.match_id]
       IN
       /\ match_state.exists
       /\ grow_state.exists
       /\ match_state.player_a_sales = 1
       /\ ItemCount(grow_state.player_a_inventory) = 6
       /\ AdvanceIfReady(grow_state.player_a_slots[1], now).plant_state.tag = "Ready"
       /\ HarvestStrainErr(match_state.match_id, match_state.player_a, 1)
             = "InventoryFull"

(***************************************************************************)
(* advance_if_ready applied to one slot at successive clock readings       *)
(***************************************************************************)
\* The slots advance_if_ready is applied to: an empty one, and plants of
\* each level planted at GENESIS_TS or a second later, growing or ready.
AdvanceInputs ==
    {DefaultGrowSlot}
    \cup {[plant_state |-> ps, strain_level |-> ps.strain_level,
           variant_id |-> v, last_harvested_ts |-> 0] :
            ps \in {Growing(l, p) : l \in 1..3, p \in {GENESIS_TS, GENESIS_TS + 1}}
                   \cup {Ready(l) : l \in 1..3},
            v \in {0, 2}}

\* the clock readings around the three growth times
AdvanceTimes ==
    {GENESIS_TS + d : d \in {0, 9, 10, 11, 29, 30, 31, 59, 60, 61}}

InitAdvance ==
    /\ Genesis
    /\ calc \in {[fn |-> "advance_if_ready", planted |-> slot, slot |-> slot,
                  applied |-> FALSE] : slot \in AdvanceInputs}

\* slot.advance_if_ready(current_ts) at a clock reading not before the last
ApplyAdvanceIfReady(current_ts) ==
    /\ calc.fn = "advance_if_ready"
    /\ current_ts >= now
    /\ now' = current_ts
    /\ calc' = [calc EXCEPT !.slot = AdvanceIfReady(@, current_ts),
                            !.applied = TRUE]
    /\ UNCHANGED <<accounts, harvests>>

NextAdvance ==
    \/ \E t \in AdvanceTimes : ApplyAdvanceIfReady(t)

SpecAdvance == InitAdvance /\ [][NextAdvance]_vars

(***************************************************************************)
(* Planting around the beginning of the endgame lock                       *)
(***************************************************************************)
\* The clock readings of a match that ends at GENESIS_TS + 300: its
\* creation, the two sides of the beginning of the endgame lock, the last
\* second of the match and its end.
LockTimePoints ==
    { GENESIS_TS,
      GENESIS_TS + CANCEL_TIMEOUT_SECONDS - ENDGAME_LOCK_SECONDS - 1,
      GENESIS_TS + CANCEL_TIMEOUT_SECONDS - ENDGAME_LOCK_SECONDS,
      GENESIS_TS + CANCEL_TIMEOUT_SECONDS - 1,
      GENESIS_TS + CANCEL_TIMEOUT_SECONDS }

TickLock ==
    /\ \E t \in LockTimePoints :
          /\ t > now
          /\ \A u \in LockTimePoints : u > now => t <= u
          /\ now' = t
    /\ UNCHANGED records

\* One running match of players 1 and 2 and its grow state; slot 0 of
\* either player is planted with any level and harvested.
NextLock ==
    \/ TickLock
    \/ \E in \in GameInitInputs : now = GENESIS_TS /\ in.player_a = 1 /\ InitMatch(in)
    \/ now = GENESIS_TS /\ InitGrowState(1, 12345)
    \/ \E id \in MatchIds, p \in Players, i \in SlotInputs, l \in 1..3 :
          /\ growState[id].exists
          /\ ItemsOf(id) < MaxItems
          /\ PlantStrain(id, p, i, l)
    \/ \E id \in MatchIds, p \in Players, i \in SlotInputs :
          HarvestStrain(id, p, i)

SpecLock == Init /\ [][NextLock]_vars

(***************************************************************************)
(* The delivery rotation: select_delivery_spots over seeds, and the        *)
(* delivery state of a running match over rotation intervals               *)
(***************************************************************************)
\* Seeds whose bytes 0, 1, 2, 3 and 5 drive the five picks through every
\* branch of select_delivery_spots, and the seeds of match 12345 in four
\* rotations.
SeedInputs ==
    { <<b0, b1, b2, b3, 0, b5, 0, 0>> :
         b0 \in {0, 1, 2}, b1 \in {0, 3}, b2 \in {0, 7},
         b3 \in {0, 1, 2, 32, 33, 34, 48, 49},
         b5 \in {0, 1, 2, 3, 4, 5, 16, 32, 50, 52, 64} }
    \cup { ComputeDeliverySeed(12345, GENESIS_TS + d) : d \in {0, 60, 120, 180} }

\* the clock readings on both sides of one and of two rotation intervals
\* after GENESIS_TS, and the end of the match
DeliveryTimePoints ==
    { GENESIS_TS,
      GENESIS_TS + DELIVERY_ROTATION_INTERVAL - 1,
      GENESIS_TS + DELIVERY_ROTATION_INTERVAL,
      GENESIS_TS + 2 * DELIVERY_ROTATION_INTERVAL - 1,
      GENESIS_TS + 2 * DELIVERY_ROTATION_INTERVAL,
      GENESIS_TS + CANCEL_TIMEOUT_SECONDS }

TickDelivery ==
    /\ \E t \in DeliveryTimePoints :
          /\ t > now
          /\ \A u \in DeliveryTimePoints : u > now => t <= u
          /\ now' = t
    /\ UNCHANGED records

\* the timestamps compute_delivery_seed is given: the two ends of the
\* rotations 16 (960..1019), 17 (1020..1079) and the first of 18, and 1000
SeedTimes == {960, 1000, 1019, 1020, 1059, 1060, 1079, 1080}

\* Either a seed is given to select_delivery_spots, or a match id and two
\* timestamps are given to compute_delivery_seed, or a customer index (any
\* u8) to the two layer_from_index functions, or a match is run
InitDelivery ==
    /\ Genesis
    /\ calc \in {NoCalc}
                \cup {[fn |-> "select_delivery_spots", seed |-> s, applied |-> FALSE,
                       spots |-> NoSpots, count |-> 0] : s \in SeedInputs}
                \cup {[fn |-> "compute_delivery_seed", match_id |-> id,
                       first_ts |-> t1, second_ts |-> t2, applied |-> FALSE,
                       first |-> U64Zero, second |-> U64Zero] :
                         id \in MatchIds, t1 \in SeedTimes, t2 \in SeedTimes}
                \cup {[fn |-> "layer_from_index", customer_index |-> c,
                       applied |-> FALSE, match_layer |-> 0,
                       delivery_layer |-> 0] : c \in 0..255}

ApplyComputeDeliverySeed ==
    /\ calc.fn = "compute_delivery_seed"
    /\ ~calc.applied
    /\ calc' = [calc EXCEPT
                  !.applied = TRUE,
                  !.first = ComputeDeliverySeed(calc.match_id, calc.first_ts),
                  !.second = ComputeDeliverySeed(calc.match_id, calc.second_ts)]
    /\ UNCHANGED <<now, accounts, harvests>>

ApplySelectDeliverySpots ==
    /\ calc.fn = "select_delivery_spots"
    /\ ~calc.applied
    /\ LET sel == SelectDeliverySpots(calc.seed) IN
       calc' = [calc EXCEPT !.applied = TRUE, !.spots = sel.spots,
                            !.count = sel.count]
    /\ UNCHANGED <<now, accounts, harvests>>

ApplyLayerFromIndex ==
    /\ calc.fn = "layer_from_index"
    /\ ~calc.applied
    /\ calc' = [calc EXCEPT
                  !.applied = TRUE,
                  !.match_layer = LayerFromIndex(calc.customer_index),
                  !.delivery_layer = DeliveryLayerFromIndex(calc.customer_index)]
    /\ UNCHANGED <<now, accounts, harvests>>

\* The match of players 1 and 2 that ends at GENESIS_TS + 300; its
\* delivery state is created at any clock reading and refreshed by anyone.
NextDelivery ==
    \/ ApplySelectDeliverySpots
    \/ ApplyComputeDeliverySeed
    \/ ApplyLayerFromIndex
    \/ calc = NoCalc /\ TickDelivery
    \/ \E in \in GameInitInputs :
          calc = NoCalc /\ now = GENESIS_TS /\ in.player_a = 1 /\ InitMatch(in)
    \/ calc = NoCalc /\ InitDeliveryState(1, 12345)
    \/ calc = NoCalc /\ RefreshDeliverySlots(12345, 1)

SpecDelivery == InitDelivery /\ [][NextDelivery]_vars

(***************************************************************************)
(* Settlement of two matches created at GENESIS_TS, with players who act   *)
(***************************************************************************)
\* Both matches are created at GENESIS_TS with the early start, so that the
\* cancel timeout and the end of the match lie at GENESIS_TS + 300, the last
\* clock reading.
SettleInitInputs == { in \in InitInputs : in.start_ts = EarlyStart }

\* the clock readings of the settlement: those of the staking, one in the
\* middle of the match and two after its end
SettleTimePoints ==
    TimePoints \cup { GENESIS_TS + 150, GENESIS_TS + CANCEL_TIMEOUT_SECONDS + 1,
                      GENESIS_TS + CANCEL_TIMEOUT_SECONDS + 60 }

TickSettle ==
    /\ \E t \in SettleTimePoints :
          /\ t > now
          /\ \A u \in SettleTimePoints : u > now => t <= u
          /\ now' = t
    /\ UNCHANGED records

NextSettle ==
    \/ TickSettle
    \/ \E in \in SettleInitInputs : now = GENESIS_TS /\ InitMatch(in)
    \/ \E h \in Hashes, p \in Players : JoinMatchWithStake(h, p)
    \/ \E h \in Hashes, p \in Players : CancelMatch(h, p)
    \/ \E m \in Hashes, s \in Hashes, p \in Players, d \in Players :
          FinalizeMatch(m, s, p, d)

\* Time advances; player A of a match cancels when the call is enabled; a
\* player of a match finalizes it, passing the records of that match, when
\* the call is enabled.
FairSettle ==
    /\ WF_vars(TickSettle)
    /\ \A h \in Hashes :
          /\ WF_vars(\E p \in Players : CancelMatch(h, p))
          /\ WF_vars(\E p \in Players, d \in Players : FinalizeMatch(h, h, p, d))

SpecSettle == Init /\ [][NextSettle]_vars /\ FairSettle

(***************************************************************************)
(* Properties of the grow slots                                            *)
(***************************************************************************)
\* the time a plant of a level takes to grow
GrowthTimeOf(strain_level) ==
    IF strain_level = 1 THEN 10 ELSE IF strain_level = 2 THEN 30 ELSE 60

\* C21: harvest_strain on an Empty slot fails with SlotEmpty and on a slot
\* that is still Growing (now - planted_at < growth time) with
\* GrowthTimeNotElapsed, leaving inventory and slot as they are.
C21_UnripeHarvestRefused ==
    \A id \in MatchIds, side \in {"a", "b"}, i \in SlotIndices :
       LET grow_state == growState[id]
           player == IF side = "a" THEN grow_state.player_a ELSE grow_state.player_b
           plant_state == SlotsOf(grow_state, side)[i].plant_state
           open == IsOpen(matchState[grow_state.match_id_hash])
       IN
       grow_state.exists =>
          /\ plant_state.tag = "Empty" =>
                /\ HarvestStrainErr(id, player, i) # Ok
                /\ open => HarvestStrainErr(id, player, i) = "SlotEmpty"
          /\ ( /\ plant_state.tag = "Growing"
               /\ now - plant_state.planted_at
                     < GrowthTimeOf(plant_state.strain_level) ) =>
                /\ HarvestStrainErr(id, player, i) # Ok
                /\ open => HarvestStrainErr(id, player, i) = "GrowthTimeNotElapsed"

\* C21: 10 seconds after planting, player A's level 2 plant is still growing
\* and player B's slot is empty after a harvest; both harvests are refused
C21_GrowingAndEmpty ==
    LET grow_state == growState[12345] IN
    /\ grow_state.exists
    /\ grow_state.player_a_slots[0].plant_state = Growing(2, now - 10)
    /\ grow_state.player_b_slots[0].plant_state.tag = "Empty"
    /\ grow_state.player_b_slots[0].last_harvested_ts = now
    /\ HarvestStrainErr(12345, grow_state.player_a, 0) = "GrowthTimeNotElapsed"
    /\ HarvestStrainErr(12345, grow_state.player_b, 0) = "SlotEmpty"

\* a step in which the plant of slot i of a side of a game is harvested
HarvestStep(id, side, i) ==
    /\ growState[id].exists
    /\ SlotsOf(growState[id], side)[i].plant_state.tag # "Empty"
    /\ SlotsOf(growState'[id], side)[i].plant_state.tag = "Empty"

C22_HarvestEffect ==
    \A id \in MatchIds, side \in {"a", "b"}, i \in SlotIndices :
       HarvestStep(id, side, i) =>
          LET slot == SlotsOf(growState[id], side)[i]
              other == OtherSide(side)
          IN
          \E l \in 1..3 :
             /\ AdvanceIfReady(slot, now).plant_state = Ready(l)
             /\ \A k \in 1..3 :
                   InventoryGet(InventoryOf(growState'[id], side), k)
                      = InventoryGet(InventoryOf(growState[id], side), k)
                           + (IF k = l THEN 1 ELSE 0)
             /\ SlotsOf(growState'[id], side)[i] =
                   [slot EXCEPT !.plant_state = Empty, !.last_harvested_ts = now]
             /\ IsSlotAvailable(SlotsOf(growState'[id], side)[i])
             /\ \A j \in SlotIndices :
                   j # i => SlotsOf(growState'[id], side)[j]
                               = SlotsOf(growState[id], side)[j]
             /\ SlotsOf(growState'[id], other) = SlotsOf(growState[id], other)
             /\ InventoryOf(growState'[id], other) = InventoryOf(growState[id], other)

\* an inventory grows only by a harvest
C22_OnlyHarvestAdds ==
    \A id \in MatchIds, side \in {"a", "b"} :
       ( /\ growState[id].exists
         /\ ItemCount(InventoryOf(growState'[id], side))
               > ItemCount(InventoryOf(growState[id], side)) ) =>
          \E i \in SlotIndices : HarvestStep(id, side, i)

\* C22: a successful harvest of a Ready plant of level L from slot s of
\* player P adds exactly one item of level L to P's inventory, empties slot
\* s, which can be planted again at once, and records last_harvested_ts =
\* now; P's other slots and other levels and the other player's slots and
\* inventory stay as they are.
C22_HarvestFrame ==
    [][C22_HarvestEffect /\ C22_OnlyHarvestAdds]_vars

\* C22: player A has just harvested a level 2 plant while player B has a
\* plant in the ground
C22_Level2Harvested ==
    LET grow_state == growState[12345] IN
    /\ grow_state.exists
    /\ grow_state.player_a_inventory = [level1 |-> 0, level2 |-> 1, level3 |-> 0]
    /\ grow_state.player_a_slots[0].plant_state = Empty
    /\ grow_state.player_a_slots[0].strain_level = 2
    /\ grow_state.player_a_slots[0].last_harvested_ts = now
    /\ grow_state.player_b_slots[0].plant_state.tag = "Growing"

C23_ReadsByTime ==
    (calc.fn = "advance_if_ready" /\ calc.applied) =>
       LET planted == calc.planted.plant_state IN
       /\ planted.tag = "Growing" =>
             calc.slot =
                [calc.planted EXCEPT !.plant_state =
                    IF now < planted.planted_at + GrowthTimeOf(planted.strain_level)
                    THEN planted
                    ELSE Ready(planted.strain_level)]
       /\ planted.tag # "Growing" => calc.slot = calc.planted
       /\ AdvanceIfReady(calc.slot, now) = calc.slot

C23_ReadyStays ==
    (calc.fn = "advance_if_ready" /\ calc.slot.plant_state.tag = "Ready") =>
       calc'.slot = calc.slot

\* C23: a slot planted with level L at time p reads Growing under
\* advance_if_ready at every now < p + growth time and Ready from then on
\* (10, 30, 60 for levels 1, 2, 3), however often and whenever it was
\* applied before; advance_if_ready is idempotent, leaves Empty and Ready
\* slots as they are and never turns Ready into Growing.
C23_AdvanceIfReady ==
    /\ []C23_ReadsByTime
    /\ [][C23_ReadyStays]_vars

\* C23: a level 3 plant planted at GENESIS_TS reads Ready exactly 60 seconds
\* later
C23_Level3Ripe ==
    /\ calc.fn = "advance_if_ready"
    /\ calc.applied
    /\ calc.planted.plant_state = Growing(3, GENESIS_TS)
    /\ now = GENESIS_TS + 60
    /\ calc.slot.plant_state = Ready(3)

\* the endgame lock of the match of a game is on
InEndgameLock(id) ==
    LET match_state == matchState[growState[id].match_id_hash] IN
    /\ growState[id].exists
    /\ ~match_state.is_finalized
    /\ now >= match_state.end_ts - 60
    /\ now < match_state.end_ts

C24_LockedRefused ==
    \A id \in MatchIds :
       /\ InEndgameLock(id) =>
             \A p \in Players, i \in 0..SLOTS_PER_PLAYER, l \in 0..4 :
                PlantStrainErr(id, p, i, l) = "EndgamePlantingLocked"
       /\ growState[id].exists =>
             \A side \in {"a", "b"}, i \in SlotIndices :
                LET ps == SlotsOf(growState[id], side)[i].plant_state IN
                ps.tag = "Growing" =>
                   ps.planted_at <
                      matchState[growState[id].match_id_hash].end_ts - 60

C24_NoPlantInLock ==
    \A id \in MatchIds :
       InEndgameLock(id) =>
          \A side \in {"a", "b"}, i \in SlotIndices :
             SlotsOf(growState'[id], side)[i].plant_state.tag = "Growing" =>
                SlotsOf(growState'[id], side)[i] = SlotsOf(growState[id], side)[i]

\* C24: every plant_strain call at end_ts - 60 <= now < end_ts is refused
\* with EndgamePlantingLocked, whatever its player, slot and level, and the
\* slots keep their plants: no plant is planted in the final 60 seconds.
C24_EndgameLock ==
    /\ []C24_LockedRefused
    /\ [][C24_NoPlantInLock]_vars

\* C24: the lock has just begun; player 1 planted a second before it and
\* player 2, whose slot is free, is refused
C24_LockJustBegun ==
    /\ growState[12345].exists
    /\ now = matchState[1].end_ts - 60
    /\ growState[12345].player_a_slots[0].plant_state = Growing(1, now - 1)
    /\ growState[12345].player_b_slots[0].plant_state.tag = "Empty"
    /\ PlantStrainErr(12345, 2, 0, 1) = "EndgamePlantingLocked"

\* the plant state a slot reads at a clock reading
ReadPlantState(slot, current_ts) == AdvanceIfReady(slot, current_ts).plant_state

C25_OccupiedRefused ==
    \A id \in MatchIds, side \in {"a", "b"}, i \in SlotIndices, l \in 1..3 :
       LET grow_state == growState[id]
           match_state == matchState[grow_state.match_id_hash]
           player == PlayerOf(match_state, side)
           slot == SlotsOf(grow_state, side)[i]
       IN
       (grow_state.exists
          /\ ReadPlantState(slot, now).tag \in {"Growing", "Ready"}) =>
          /\ PlantStrainErr(id, player, i, l) # Ok
          /\ (IsOpen(match_state)
                /\ now < match_state.end_ts - 60
                /\ now + GrowthTimeOf(l) <= match_state.end_ts) =>
                PlantStrainErr(id, player, i, l) = "SlotOccupied"

C25_SlotSteps ==
    \A id \in MatchIds, side \in {"a", "b"}, i \in SlotIndices :
       LET slot == SlotsOf(growState[id], side)[i]
           slot_after == SlotsOf(growState'[id], side)[i]
           read == ReadPlantState(slot, now)
           read_after == ReadPlantState(slot_after, now')
       IN
       (growState[id].exists /\ (read # read_after \/ slot # slot_after)) =>
          \/ /\ read = Empty
             /\ now' = now
             /\ \E l \in 1..3 :
                   /\ slot_after.plant_state = Growing(l, now)
                   /\ slot_after.strain_level = l
                   /\ slot_after.last_harvested_ts = slot.last_harvested_ts
             /\ SlotsOf(growState'[id], OtherSide(side)) =
                   SlotsOf(growState[id], OtherSide(side))
          \/ /\ read.tag = "Growing"
             /\ read_after = Ready(read.strain_level)
             /\ slot_after = slot
             /\ now < read.planted_at + GrowthTimeOf(read.strain_level)
             /\ now' >= read.planted_at + GrowthTimeOf(read.strain_level)
          \/ /\ read.tag = "Ready"
             /\ now' = now
             /\ slot_after.plant_state = Empty
             /\ SlotsOf(growState'[id], OtherSide(side)) =
                   SlotsOf(growState[id], OtherSide(side))

\* C25: the plant state a slot reads changes only from Empty to Growing (a
\* successful plant_strain, which records the level and now), from Growing
\* to Ready (the growth time has elapsed) and from Ready to Empty (a
\* successful harvest_strain); plant_strain on a Growing or Ready slot is
\* refused with SlotOccupied; a step that plants or harvests a slot of one
\* player leaves the slots of the other player as they are.
C25_SlotStateMachine ==
    /\ []C25_OccupiedRefused
    /\ [][C25_SlotSteps]_vars

\* C25: player 1 has just planted and is refused a second plant in the
\* slot, while the slot of player 2 has gone through a whole cycle
C25_OccupiedBesideACycle ==
    /\ growState[12345].exists
    /\ growState[12345].player_a_slots[0].plant_state = Growing(1, now)
    /\ PlantStrainErr(12345, 1, 0, 2) = "SlotOccupied"
    /\ growState[12345].player_b_slots[0].plant_state = Empty
    /\ growState[12345].player_b_slots[0].last_harvested_ts = now
    /\ InventoryTotal(growState[12345].player_b_inventory) = 1

(***************************************************************************)
(* Properties of the delivery rotation                                     *)
(***************************************************************************)
\* the active entries hold a customer of each layer
HasEachLayer(spots, count) ==
    /\ \E i \in 1..count : spots[i] >= 0 /\ spots[i] <= 2
    /\ \E i \in 1..count : spots[i] >= 3 /\ spots[i] <= 10
    /\ \E i \in 1..count : spots[i] >= 11 /\ spots[i] <= 22

\* C26: for every seed the active entries select_delivery_spots returns
\* hold a customer of layer 3 (0-2), one of layer 2 (3-10) and one of
\* layer 1 (11-22), and so does every delivery state, after
\* init_delivery_state and after every refresh_delivery_slots.
C26_EachLayerActive ==
    /\ (calc.fn = "select_delivery_spots" /\ calc.applied) =>
          HasEachLayer(calc.spots, calc.count)
    /\ \A id \in MatchIds :
          deliveryState[id].exists =>
             HasEachLayer(deliveryState[id].available_customers,
                          deliveryState[id].active_count)

\* C26: the delivery state of match 12345 was refreshed two rotation
\* intervals after GENESIS_TS
C26_RefreshedTwice ==
    /\ deliveryState[12345].exists
    /\ deliveryState[12345].last_update_ts = GENESIS_TS + 120
    /\ now = GENESIS_TS + 120
    /\ HasEachLayer(deliveryState[12345].available_customers,
                    deliveryState[12345].active_count)
\* count entries, pairwise distinct customer indices, then the sentinel
WellFormedSpots(spots, count) ==
    /\ 3 <= count /\ count <= 5
    /\ \A i \in 1..count : spots[i] \in 0..22
    /\ \A i, j \in 1..count : i # j => spots[i] # spots[j]
    /\ \A i \in (count + 1)..5 : spots[i] = 255

\* C27: for every seed select_delivery_spots returns between 3 and 5
\* entries, pairwise distinct customer indices in 0..22, followed by the
\* sentinel 255 in the remaining entries; the same holds for the active set
\* of every delivery state.
C27_SpotsWellFormed ==
    /\ (calc.fn = "select_delivery_spots" /\ calc.applied) =>
          WellFormedSpots(calc.spots, calc.count)
    /\ \A id \in MatchIds :
          deliveryState[id].exists =>
             WellFormedSpots(deliveryState[id].available_customers,
                             deliveryState[id].active_count)

\* C27: the second additional pick and its fallback are both taken already,
\* and four entries are returned
C27_FallbackSkipped ==
    /\ calc.fn = "select_delivery_spots"
    /\ calc.applied
    /\ calc.seed = <<0, 0, 0, 33, 0, 64, 0, 0>>
    /\ calc.spots = <<1, 3, 15, 17, 255>>
    /\ calc.count = 4
C28_TooSoonRefused ==
    \A id \in MatchIds, m \in Hashes :
       deliveryState[id].exists =>
          /\ now < deliveryState[id].last_update_ts + 60 =>
                /\ RefreshDeliverySlotsErr(id, m) # Ok
                /\ (matchState[m].exists /\ matchState[m].match_id = id
                      /\ IsOpen(matchState[m])) =>
                      RefreshDeliverySlotsErr(id, m) = "DeliveryRotationTooSoon"
          /\ RefreshDeliverySlotsErr(id, m) = Ok =>
                /\ now >= deliveryState[id].last_update_ts + 60
                /\ IsOpen(matchState[m])

C28_Rotation ==
    \A id \in MatchIds :
       (deliveryState[id].exists /\ deliveryState'[id] # deliveryState[id]) =>
          /\ now' = now
          /\ now >= deliveryState[id].last_update_ts + 60
          /\ \E m \in Hashes : matchState[m].match_id = id /\ IsOpen(matchState[m])
          /\ deliveryState'[id].last_update_ts = now
          /\ LET sel == SelectDeliverySpots(ComputeDeliverySeed(id, now)) IN
             /\ deliveryState'[id].available_customers = sel.spots
             /\ deliveryState'[id].active_count = sel.count

\* C28: refresh_delivery_slots is refused with DeliveryRotationTooSoon, the
\* active set and last_update_ts staying as they are, while
\* now < last_update_ts + 60; it succeeds only at now >= last_update_ts + 60
\* in an open match and then sets last_update_ts to now and the active set
\* to the selection of the match id and the time bucket of now; two
\* successive rotations are at least 60 seconds apart.
C28_RotationInterval ==
    /\ []C28_TooSoonRefused
    /\ [][C28_Rotation]_vars

\* C28: 59 seconds after the rotation at GENESIS_TS + 60 a refresh is
\* refused
C28_RefusedAfter59 ==
    /\ deliveryState[12345].exists
    /\ deliveryState[12345].last_update_ts = GENESIS_TS + 60
    /\ now = GENESIS_TS + 119
    /\ RefreshDeliverySlotsErr(12345, 1) = "DeliveryRotationTooSoon"
\* the seeds of two timestamps agree exactly when the timestamps lie in
\* the same bucket of 60
SeedsByBucket ==
    (calc.fn = "compute_delivery_seed" /\ calc.applied) =>
       /\ (calc.first_ts \div 60 = calc.second_ts \div 60) =>
             calc.first = calc.second
       /\ (calc.first_ts \div 60 # calc.second_ts \div 60) =>
             calc.first # calc.second

C30_LayersPartition ==
    /\ (calc.fn = "layer_from_index" /\ calc.applied) =>
          /\ calc.match_layer = calc.delivery_layer
          /\ calc.customer_index \in 0..2 => calc.match_layer = 3
          /\ calc.customer_index \in 3..10 => calc.match_layer = 2
          /\ calc.customer_index \in 11..22 => calc.match_layer = 1
    /\ Cardinality({c \in 0..22 : LayerFromIndex(c) = 3}) = 3
    /\ Cardinality({c \in 0..22 : LayerFromIndex(c) = 2}) = 8
    /\ Cardinality({c \in 0..22 : LayerFromIndex(c) = 1}) = 12
    /\ \A c \in 0..22 :
          /\ LayerFromIndex(c) \in {1, 2, 3}
          /\ DeliveryLayerFromIndex(c) = LayerFromIndex(c)

\* C30: both functions give layer 2 to index 10, the last of its layer
C30_LastOfLayer2 ==
    /\ calc.fn = "layer_from_index"
    /\ calc.applied
    /\ calc.customer_index = 10
    /\ calc.match_layer = 2
    /\ calc.delivery_layer = 2
(***************************************************************************)
(* Properties of the records across instructions                           *)
(***************************************************************************)
\* C31: in every match record the layer held in customers[i] is the layer
\* layer_from_index derives from i (0-2: 3, 3-10: 2, 11-22: 1), for every
\* customer index i in 0..22.
C31_StoredLayerDerived ==
    \A m \in Hashes :
       matchState[m].exists =>
          \A i \in 0..22 :
             matchState[m].customers[i].layer = LayerFromIndex(i)

\* C31: a match record whose customer 0 holds layer 1 while its index
\* derives layer 3, and whose customer 22 holds layer 3 while its index
\* derives layer 1
C31_LayersSwapped ==
    /\ matchState[1].exists
    /\ matchState[1].customers[0].layer = 1
    /\ LayerFromIndex(0) = 3
    /\ matchState[1].customers[22].layer = 3
    /\ LayerFromIndex(22) = 1
\* the two players of a stake record
StakePlayers(stake) == {stake.player_a, stake.player_b}

\* cancel_match succeeds for player A only, join_match_with_stake for the
\* recorded player B only
CancelJoinGated ==
    \A h \in Hashes, p \in Players :
       /\ CancelMatchErr(h, p) = Ok => p = stakeState[h].player_a
       /\ JoinMatchWithStakeErr(h, p) = Ok => p = stakeState[h].player_b

\* finalize_match settles a stake for a player of that stake only; a signer
\* who is not a player of the match record is refused
FinalizeGated ==
    \A m \in Hashes, s \in Hashes, p \in Players, d \in Players :
       /\ FinalizeMatchErr(m, s, p, d) = Ok =>
             /\ p \in {matchState[m].player_a, matchState[m].player_b}
             /\ p \in StakePlayers(stakeState[s])
       /\ ((\E q \in Players : FinalizeMatchErr(m, s, q, d) = Ok)
             /\ p \notin {matchState[m].player_a, matchState[m].player_b}) =>
             FinalizeMatchErr(m, s, p, d) = "UnauthorizedFinalization"

\* gameplay by a signer who is not a player of the game is refused
GameplayGated ==
    /\ \A id \in MatchIds, p \in Players, i \in SlotIndices, l \in 1..3 :
          (growState[id].exists
             /\ p \notin {growState[id].player_a, growState[id].player_b}) =>
             /\ PlantStrainErr(id, p, i, l) # Ok
             /\ HarvestStrainErr(id, p, i) # Ok
             /\ PlantStrainErr(id, growState[id].player_a, i, l) \in {Ok, "SlotOccupied"}
                   => PlantStrainErr(id, p, i, l) = "InvalidPlayer"
             /\ HarvestStrainErr(id, growState[id].player_a, i)
                   \in {Ok, "SlotEmpty", "GrowthTimeNotElapsed", "InventoryFull"}
                   => HarvestStrainErr(id, p, i) = "InvalidPlayer"
    /\ \A m \in Hashes, p \in Players, c \in 0..22, l \in 1..3 :
          (matchState[m].exists
             /\ p \notin {matchState[m].player_a, matchState[m].player_b}) =>
             /\ SellToCustomerErr(m, p, c, l) # Ok
             /\ IsOpen(matchState[m]) /\ growState[matchState[m].match_id].exists
                   /\ deliveryState[matchState[m].match_id].exists
                   => SellToCustomerErr(m, p, c, l) = "InvalidPlayer"

\* a refund goes to player A of the stake and to nobody else; at most one
\* side of a game changes in a step
OwnRecordsOnly ==
    /\ \A h \in Hashes :
          (stakeState[h].status = Pending /\ stakeState'[h].status = Cancelled) =>
             wallet' = [wallet EXCEPT ![stakeState[h].player_a] =
                           @ + stakeState[h].player_a_escrowed]
    /\ \A id \in MatchIds :
          growState[id].exists =>
             LET m == growState[id].match_id_hash
                 same(side) ==
                    /\ SlotsOf(growState'[id], side) = SlotsOf(growState[id], side)
                    /\ InventoryOf(growState'[id], side) = InventoryOf(growState[id], side)
                    /\ SalesBy(matchState'[m], side) = SalesBy(matchState[m], side)
                    /\ ReputationOf(matchState'[m], side) = ReputationOf(matchState[m], side)
             IN  same("a") \/ same("b")

\* C32: cancel_match succeeds only for player A and refunds player A only;
\* join_match_with_stake succeeds only for the recorded player B;
\* finalize_match by anyone who is not a player of the match is refused
\* with UnauthorizedFinalization; plant_strain, harvest_strain and
\* sell_to_customer by anyone who is not a player are refused with
\* InvalidPlayer, and a player's call changes that player's own slots,
\* inventory, sales and reputation only.
C32_CallerGated ==
    /\ [](CancelJoinGated /\ FinalizeGated /\ GameplayGated)
    /\ [][OwnRecordsOnly]_vars

\* C32: wallet 1, no player of the stake of match 2 (players 2 and 3), is
\* let through by finalize_match to settle that stake into its own account
C32_StrangerSettles ==
    /\ stakeState[2].exists /\ stakeState[2].status = Active
    /\ 1 \notin StakePlayers(stakeState[2])
    /\ \E m \in Hashes : FinalizeMatchErr(m, 2, 1, 1) = Ok
\* c is among the active customers select_delivery_spots gives for a match
\* id and the rotation bucket of a timestamp
InRecomputedActiveSet(match_id, current_ts, c) ==
    LET sel == SelectDeliverySpots(ComputeDeliverySeed(match_id, current_ts)) IN
    ContainsSpot(sel.spots, sel.count, c)

\* C33: at every successful sale, at time now, the customer sold to is a
\* member of select_delivery_spots(compute_delivery_seed(match_id, now)),
\* the active set of the rotation bucket floor(now / 60) of the sale event,
\* whenever refresh_delivery_slots was or was not called.
C33_SaleInBucketOfNow ==
    [][\A m \in Hashes, c \in 0..(NUM_CUSTOMERS - 1) :
          SaleStep(m, c) =>
             InRecomputedActiveSet(matchState[m].match_id, now, c)]_vars

\* C33: customer 5 has just been served, from the active set stored several
\* rotations ago, and is no member of the set of the rotation of now
C33_SoldFromStaleSet ==
    /\ matchState[1].exists
    /\ matchState[1].customers[5].total_serves = 1
    /\ matchState[1].customers[5].last_served_ts = now
    /\ deliveryState[12345].exists
    /\ deliveryState[12345].last_update_ts + 4 * DELIVERY_ROTATION_INTERVAL < now
    /\ InStoredActiveSet(deliveryState[12345], 5)
    /\ ~InRecomputedActiveSet(12345, now, 5)
\* cancel_match is enabled for player A of a Pending stake from the
\* timeout on; finalize_match is enabled for a player of an Active stake,
\* on the records of the match, from the end of the match on
SettlementEnabled ==
    \A h \in Hashes :
       LET stake == stakeState[h] IN
       /\ (stake.exists /\ stake.status = Pending
             /\ stake.player_b_escrowed = 0
             /\ now >= stake.created_at + 300) =>
             CancelMatchErr(h, stake.player_a) = Ok
       /\ (stake.exists /\ stake.status = Active
             /\ now >= matchState[h].end_ts) =>
             \E p \in StakePlayers(stake), d \in Players :
                FinalizeMatchErr(h, h, p, d) = Ok

\* the stake is settled and its escrow is empty
Settled(h) ==
    /\ stakeState[h].status \in {Finalized, Cancelled}
    /\ escrow[h] = 0

\* C34: escrowed value is never locked forever: cancel_match by player A is
\* enabled at every now >= created_at + 300 while the stake is Pending and
\* player B has not joined, finalize_match by a player is enabled at every
\* now >= end_ts while the stake is Active, and, time advancing and enabled
\* players acting, every stake ends Finalized or Cancelled with an empty
\* escrow.
C34_NeverLocked ==
    /\ []SettlementEnabled
    /\ \A h \in Hashes : stakeState[h].exists ~> Settled(h)

\* C34: the match of stake 1 has ended and is finalized, its stake is Active
\* with the pot in escrow, and its players are refused
C34_PotLocked ==
    /\ stakeState[1].status = Active
    /\ escrow[1] > 0
    /\ now >= matchState[1].end_ts
    /\ matchState[1].is_finalized
    /\ \A p \in Players, d \in Players : FinalizeMatchErr(1, 1, p, d) # Ok
    /\ \A p \in StakePlayers(stakeState[1]), d \in StakePlayers(stakeState[1]) :
          FinalizeMatchErr(1, 1, p, d) = "MatchAlreadyFinalized"
\* the gameplay calls are let through only with the stake Active
GameplayNeedsActiveStake ==
    /\ \A id \in MatchIds, p \in Players, i \in SlotIndices, l \in 1..3 :
          growState[id].exists =>
             /\ PlantStrainErr(id, p, i, l) = Ok =>
                   stakeState[growState[id].match_id_hash].status = Active
             /\ HarvestStrainErr(id, p, i) = Ok =>
                   stakeState[growState[id].match_id_hash].status = Active
    /\ \A m \in Hashes, p \in Players, c \in 0..(NUM_CUSTOMERS - 1), l \in 1..3 :
          SellToCustomerErr(m, p, c, l) = Ok => stakeState[m].status = Active

\* the sales, reputations and customers of a match and the slots and
\* inventories of its game change only with the stake Active
GameplayChangesNeedActiveStake ==
    /\ \A m \in Hashes :
          (matchState[m].exists
             /\ [matchState'[m] EXCEPT !.is_finalized = FALSE]
                   # [matchState[m] EXCEPT !.is_finalized = FALSE]) =>
             stakeState[m].status = Active
    /\ \A id \in MatchIds :
          (growState[id].exists /\ growState'[id] # growState[id]) =>
             stakeState[growState[id].match_id_hash].status = Active

\* C35: plant_strain, harvest_strain and sell_to_customer succeed only
\* while the status of the stake is Active; while it is Pending or
\* Cancelled no gameplay operation changes the match record or the grow
\* state.
C35_ActiveStakeOnly ==
    /\ []GameplayNeedsActiveStake
    /\ [][GameplayChangesNeedActiveStake]_vars

\* C35: player B never staked, the stake is Pending, and player A has a
\* sale on the match record
C35_SoldWhilePending ==
    /\ stakeState[1].status = Pending
    /\ stakeState[1].player_b_escrowed = 0
    /\ matchState[1].player_a_sales = 1
    /\ growState[12345].exists
StoredSetOfLastRotation ==
    \A id \in MatchIds :
       deliveryState[id].exists =>
          LET sel == SelectDeliverySpots(
                        ComputeDeliverySeed(id, deliveryState[id].last_update_ts))
          IN  /\ deliveryState[id].available_customers = sel.spots
              /\ deliveryState[id].active_count = sel.count

GameplayKeepsDeliveryState ==
    (growState' # growState \/ matchState' # matchState) =>
       deliveryState' = deliveryState

\* C36: the stored active set of every delivery state is
\* select_delivery_spots(compute_delivery_seed(match_id, last_update_ts)),
\* a function of the match id and the time bucket of the last rotation
\* alone; sales, plants and harvests never change a delivery state.
C36_SetOfLastRotation ==
    /\ []StoredSetOfLastRotation
    /\ [][GameplayKeepsDeliveryState]_vars

\* C36: the delivery state was rotated in the last second of the match, to
\* a set other than the one of GENESIS_TS, and a sale is on record
C36_RotatedAndSold ==
    /\ deliveryState[12345].exists
    /\ deliveryState[12345].last_update_ts = GENESIS_TS + 299
    /\ deliveryState[12345].available_customers
          # SelectDeliverySpots(ComputeDeliverySeed(12345, GENESIS_TS)).spots
    /\ SalesOf(1) = 1

\* the serves of the customers 0..n-1 of a match record, added up
RECURSIVE ServesUpTo(_, _)
ServesUpTo(match_state, n) ==
    IF n = 0 THEN 0
    ELSE ServesUpTo(match_state, n - 1) + match_state.customers[n - 1].total_serves

\* the sales of both players are the serves of the 23 customers
SalesAreServes ==
    \A m \in Hashes :
       matchState[m].exists =>
          SalesOf(m) = ServesUpTo(matchState[m], NUM_CUSTOMERS)

\* the items a side of a game has harvested so far: those it still holds
\* and those it has sold
HarvestedBy(grow_state, match_state, side) ==
    InventoryTotal(InventoryOf(grow_state, side)) + SalesBy(match_state, side)

\* a successful harvest of a side adds one to the items of that side, and
\* no other step changes them
HarvestsCounted ==
    \A id \in MatchIds, side \in {"a", "b"} :
       growState[id].exists =>
          LET m == growState[id].match_id_hash
              before == HarvestedBy(growState[id], matchState[m], side)
              after == HarvestedBy(growState'[id], matchState'[m], side)
          IN  IF \E i \in SlotIndices : HarvestStep(id, side, i)
              THEN after = before + 1
              ELSE after = before

ReputationsNonNegative ==
    \A m \in Hashes :
       /\ matchState[m].exists =>
             /\ matchState[m].player_a_reputation >= 0
             /\ matchState[m].player_b_reputation >= 0
       /\ \A p \in Players, c \in 0..(NUM_CUSTOMERS - 1), l \in 0..4 :
             SellToCustomerErr(m, p, c, l) = Ok =>
                /\ GetReputationChange(LayerFromIndex(c), l) \in 1..3
                /\ \A v \in 0..(VARIANT_COUNT - 1) :
                      SaturatingAddI32(GetReputationChange(LayerFromIndex(c), l),
                                       GetVariantRepBonus(v)) \in 0..4

\* a sale of a side raises the reputation of that side by 0 to 4, and no
\* step lowers a reputation
ReputationsGrow ==
    \A m \in Hashes, side \in {"a", "b"} :
       matchState[m].exists =>
          LET before == ReputationOf(matchState[m], side)
              after == ReputationOf(matchState'[m], side)
          IN  /\ after >= before
              /\ SalesBy(matchState'[m], side) = SalesBy(matchState[m], side) + 1
                    => after - before \in 0..4
              /\ SalesBy(matchState'[m], side) = SalesBy(matchState[m], side)
                    => after = before

\* C38: every successful sale changes the reputation of the seller by an
\* amount in 0..4; in every reachable state both reputations are >= 0 and
\* no step lowers them, so no sale draws a negative entry of the reputation
\* table.
C38_ReputationNeverFalls ==
    /\ []ReputationsNonNegative
    /\ [][ReputationsGrow]_vars

C38_SoldWithoutGain ==
    /\ matchState[1].exists
    /\ matchState[1].player_a_sales = 1
    /\ matchState[1].player_a_reputation = 3
    /\ matchState[1].player_b_sales = 1
    /\ matchState[1].player_b_reputation = 0

\* C39: every successfully planted plant becomes Ready strictly before the
\* end of the match: planted_at + growth time < end_ts holds for every
\* Growing slot, which reads Ready in the last second of the match, and
\* plant_strain never fails with PlantWontBeReady.
C39_ReadyBeforeEnd ==
    \A id \in MatchIds :
       growState[id].exists =>
          LET end_ts == matchState[growState[id].match_id_hash].end_ts IN
          /\ \A side \in {"a", "b"}, i \in SlotIndices :
                LET slot == SlotsOf(growState[id], side)[i] IN
                slot.plant_state.tag = "Growing" =>
                   /\ slot.plant_state.planted_at
                         + GrowthTimeOf(slot.plant_state.strain_level) < end_ts
                   /\ ReadPlantState(slot, end_ts - 1)
                         = Ready(slot.plant_state.strain_level)
          /\ \A p \in Players, i \in 0..SLOTS_PER_PLAYER, l \in 0..4 :
                PlantStrainErr(id, p, i, l) # "PlantWontBeReady"

C39_Level3AtTheLastChance ==
    /\ growState[12345].exists
    /\ now = matchState[1].end_ts - ENDGAME_LOCK_SECONDS - 1
    /\ growState[12345].player_a_slots[0].plant_state = Growing(3, now)
    /\ WillBeReadyInTime(now, matchState[1].end_ts, 3)

\* the fourth entry is a customer of layer 2 or 1 that is none of the first
\* three, and four or five entries are active
FirstBonusPlaced(spots, count) ==
    /\ count \in {4, 5}
    /\ spots[4] >= LAYER2_START /\ spots[4] <= LAYER1_END
    /\ spots[4] \notin {spots[1], spots[2], spots[3]}
    /\ count = 4 <=> spots[5] = 255

\* C40: for every seed the first bonus pick of select_delivery_spots is
\* placed, in the layer the seed chooses (layer 2 when seed >> 24 is a
\* multiple of 3, layer 1 otherwise) and apart from the three guaranteed
\* picks, so the count is 4 or 5 and never 3; only the second bonus pick
\* can be omitted. The same holds for the set of every delivery state.
C40_FirstBonusPlaced ==
    /\ (calc.fn = "select_delivery_spots" /\ calc.applied) =>
          /\ FirstBonusPlaced(calc.spots, calc.count)
          /\ IF U64Mod(U64Shr(calc.seed, 24), 3) = 0
             THEN calc.spots[4] <= LAYER2_END
             ELSE calc.spots[4] >= LAYER1_START
    /\ \A id \in MatchIds :
          deliveryState[id].exists =>
             FirstBonusPlaced(deliveryState[id].available_customers,
                              deliveryState[id].active_count)

\* C40: the first bonus pick falls on the guaranteed customer 3 and its
\* fallback 4 is placed; the second bonus pick falls on customer 0 and is
\* omitted
C40_FallbackOfFirstBonus ==
    /\ calc.fn = "select_delivery_spots"
    /\ calc.applied
    /\ calc.seed = <<0, 0, 0, 0, 0, 0, 0, 0>>
    /\ calc.spots = <<0, 3, 11, 4, 255>>
    /\ calc.count = 4
=============================================================================
